---- MODULE Spec2Model ----
(***************************************************************************)
(* Model of the tpm2-abrmd ResourceManager (src/src/resource-manager.c):   *)
(* the command / response processing engine, handle virtualisation, the   *)
(* per-connection quotas, the session save / load / abandon / claim       *)
(* life-cycle and the connection-close reaper.                            *)
(*                                                                         *)
(* One action processes one dequeued message completely, so every state   *)
(* of a behaviour is a quiescent boundary between two messages.  What     *)
(* happened while the message was processed (the response emitted, the    *)
(* AccessBroker calls issued, the handle area as sent) is kept in the     *)
(* history variable last.                                                 *)
(***************************************************************************)
EXTENDS Integers, Sequences, FiniteSets, TLC

(* ---------------------------------------------------------------- bounds *)
NumConns     == 3   \* connections of the model
TransientCap == 1   \* HandleMap max_entries (per-connection transient cap)
SessionCap   == 2   \* SessionList max_per_connection
VhandleRange == 2   \* vhandles a HandleMap can hand out before rollover
NumPhys      == 2   \* transient slots of the TPM
NumSess      == 3   \* session handles the TPM can hand out
MaxFaults    == 1   \* AccessBroker faults injected in one run

MAX_ABANDONED == 4

Conns    == 1 .. NumConns
Vhandles == 1 .. VhandleRange
Phandles == 1 .. NumPhys
Sessions == 1 .. NumSess

VARIABLES
    connected,  \* connections not yet removed
    hmap,       \* hmap[c]: the HandleMap of c, a set of HandleMapEntry
    vcount,     \* vcount[c]: the vhandle counter of c's HandleMap
    active,     \* SessionList: the SessionEntry objects of the active collection
    abandoned,  \* SessionList: the abandoned FIFO, oldest first
    tpm,        \* tpm[p]: the transient object resident in the TPM under the
                \* physical handle p (0: none)
    aborted,    \* the process hit g_error
    nfaults,    \* AccessBroker faults injected so far
    last,       \* what processing the last message did
    in_queue,   \* the input queue of the worker thread, oldest message first
    sink,       \* what the worker has put on the sink, oldest first
    done,       \* the worker thread has left its loop
    nmsgs       \* messages enqueued so far

vars == <<connected, hmap, vcount, active, abandoned, tpm, aborted, nfaults, last,
          in_queue, sink, done, nmsgs>>

\* the queue, the sink and the thread
qvars == <<in_queue, sink, done, nmsgs>>

(* --------------------------------------------------------------- handles *)
\* A handle is [t, n]: t is the handle type taken from the high byte
\* ("T" a virtual transient, "P" a physical transient, "S" a session,
\*  "O" any other type, "N" no handle), n the rest.
H(t, n)  == [t |-> t, n |-> n]
NoHandle == H("N", 0)
IsTransient(h) == h.t \in {"T", "P"}
IsSession(h)   == h.t = "S"

Min(S) == CHOOSE x \in S : \A y \in S : x <= y

RECURSIVE SortedSeq(_)
SortedSeq(S) == IF S = {} THEN <<>> ELSE <<Min(S)>> \o SortedSeq(S \ {Min(S)})

RECURSIVE SeqToSet(_)
SeqToSet(s) == IF s = <<>> THEN {} ELSE {Head(s)} \cup SeqToSet(Tail(s))

(* ------------------------------------------------------------- HandleMap *)
\* context is the object whose saved context the entry holds (0: the entry
\* was never saved)
HandleMapEntry(v, p) == [vhandle |-> v, phandle |-> p, context |-> 0]

handle_map_vlookup(map, v) == {e \in map : e.vhandle = v}

handle_map_is_full(map) == Cardinality(map) >= TransientCap

\* 0 signals that the counter has rolled over
handle_map_next_vhandle(count) == IF count >= VhandleRange THEN 0 ELSE count + 1

handle_map_insert(map, e) == map \cup {e}

handle_map_remove(map, v) == {e \in map : e.vhandle # v}

handle_map_get_keys(map) == {e.vhandle : e \in map}

handle_map_entry_set_phandle(map, v, p) ==
    {IF e.vhandle = v THEN [e EXCEPT !.phandle = p] ELSE e : e \in map}

\* the entry takes the context the AccessBroker saved and its phandle is zeroed
handle_map_entry_saved(map, v, ctx) ==
    {IF e.vhandle = v THEN [e EXCEPT !.phandle = 0, !.context = ctx] ELSE e : e \in map}

(* ----------------------------------------------------------- SessionList *)
SessionEntry(h, c, s) == [handle |-> h, conn |-> c, state |-> s]

session_list_lookup_handle(act, h) == {e \in act : e.handle = h}

session_list_is_full(act, c) ==
    Cardinality({e \in act : e.conn = c}) >= SessionCap

session_list_insert(act, e) == act \cup {e}

session_list_remove(act, e) == act \ {e}

RECURSIVE SeqRemoveHandle(_, _)
SeqRemoveHandle(q, h) ==
    IF q = <<>> THEN <<>>
    ELSE IF Head(q).handle = h THEN SeqRemoveHandle(Tail(q), h)
    ELSE <<Head(q)>> \o SeqRemoveHandle(Tail(q), h)

\* the context bytes handed to a client identify the session they were made for
session_list_lookup_context_client(act, abd, b) ==
    {e \in act \cup SeqToSet(abd) : e.handle = b}

\* claim: TRUE only for an entry that is in the abandoned FIFO
session_list_claim_ok(abd, e) == e \in SeqToSet(abd)

\* the order session_list_foreach visits the active collection in
session_list_order(act) == SortedSeq({e.handle : e \in act})

(* -------------------------------------------------- AccessBroker and TPM *)
\* the slot the TPM gives the next transient object, 0 when none is free
Resident(t) == {p \in Phandles : t[p] # 0}
FreePhys(t) == IF Phandles \ Resident(t) = {} THEN 0 ELSE Min(Phandles \ Resident(t))

Fault(k, n) == [k |-> k, n |-> n]
Call(op, n, ok) == [op |-> op, n |-> n, ok |-> ok]

\* the AccessBroker call op (n) is made on st: it fails when the fault k (m) is
\* injected (and fails again when the message repeats it), and the call is logged
Failing(st, k, m) == Fault(k, m) \in st.faults
Logged(st, op, n, k, m) ==
    [st EXCEPT !.calls = Append(@, Call(op, n, ~Failing(st, k, m))),
               !.hit = @ \cup (IF Failing(st, k, m) THEN {Fault(k, m)} ELSE {})]

(* ------------------------------------------------------------ work state *)
\* The state a message is processed on: the program state, the command's
\* handle area (rewritten in place by virt_to_phys), the loaded-transients
\* list, the AccessBroker calls issued so far and the faults the
\* AccessBroker will show.
Work(cmd, faults) ==
    [hmap |-> hmap, vcount |-> vcount, active |-> active,
     abandoned |-> abandoned, tpm |-> tpm, aborted |-> aborted,
     handles |-> cmd.handles, slist |-> <<>>, calls |-> <<>>,
     faults |-> faults, hit |-> {}]

(* resource_manager_virt_to_phys *)
resource_manager_virt_to_phys(st, c, v, pos) ==
    LET p == FreePhys(st.tpm)
        e == CHOOSE x \in handle_map_vlookup(st.hmap[c], v) : TRUE
    IN
    IF Failing(st, "loadT", pos)
    THEN [rc |-> FALSE, st |-> Logged(st, "context_load", v, "loadT", pos)]
    ELSE IF p = 0            \* the TPM is out of object memory
            \/ e.context = 0 \* or is handed a context that was never saved
    THEN [rc |-> FALSE,
          st |-> [st EXCEPT !.calls = Append(@, Call("context_load", v, FALSE))]]
    ELSE [rc |-> TRUE,
          st |-> [Logged(st, "context_load", v, "loadT", pos) EXCEPT
                    !.hmap[c] = handle_map_entry_set_phandle(@, v, p),
                    !.handles[pos] = H("P", p),
                    !.tpm[p] = e.context]]

(* resource_manager_load_transient *)
resource_manager_load_transient(st, c, v, pos) ==
    IF handle_map_vlookup(st.hmap[c], v) = {} THEN st
    ELSE LET r == resource_manager_virt_to_phys(st, c, v, pos) IN
         IF ~r.rc THEN r.st
         ELSE [r.st EXCEPT !.slist = <<v>> \o @]

\* as resource_manager_load_session_from_handle, but the connections are not
\* compared
load_session_from_handle_any_owner(st, c, h, will_flush) ==
    LET es == session_list_lookup_handle(st.active, h) IN
    IF es = {} THEN st
    ELSE LET e == CHOOSE x \in es : TRUE IN
         IF e.state # "SAVED_RM" THEN st
         ELSE IF Failing(st, "loadS", h)
         THEN [Logged(st, "session_load", h, "loadS", h) EXCEPT
                 !.active = session_list_remove(@, e)]
         ELSE LET l == [e EXCEPT !.state = "LOADED"] IN
              [Logged(st, "session_load", h, "loadS", h) EXCEPT
                 !.active = IF will_flush
                            THEN session_list_remove(@, e)
                            ELSE session_list_insert(session_list_remove(@, e), l)]

\* as resource_manager_load_session_from_handle, but the state of the entry is
\* not tested
load_session_from_handle_any_state(st, c, h, will_flush) ==
    LET es == session_list_lookup_handle(st.active, h) IN
    IF es = {} THEN st
    ELSE LET e == CHOOSE x \in es : TRUE IN
         IF e.conn # c THEN st
         ELSE IF Failing(st, "loadS", h)
         THEN [Logged(st, "session_load", h, "loadS", h) EXCEPT
                 !.active = session_list_remove(@, e)]
         ELSE LET l == [e EXCEPT !.state = "LOADED"] IN
              [Logged(st, "session_load", h, "loadS", h) EXCEPT
                 !.active = IF will_flush
                            THEN session_list_remove(@, e)
                            ELSE session_list_insert(session_list_remove(@, e), l)]

\* as resource_manager_load_session_from_handle, but the entry's state is not
\* set to LOADED after the load
load_session_from_handle_state_kept(st, c, h, will_flush) ==
    LET es == session_list_lookup_handle(st.active, h) IN
    IF es = {} THEN st
    ELSE LET e == CHOOSE x \in es : TRUE IN
         IF e.conn # c THEN st
         ELSE IF e.state # "SAVED_RM" THEN st
         ELSE IF Failing(st, "loadS", h)
         THEN [Logged(st, "session_load", h, "loadS", h) EXCEPT
                 !.active = session_list_remove(@, e)]
         ELSE [Logged(st, "session_load", h, "loadS", h) EXCEPT
                 !.active = IF will_flush THEN session_list_remove(@, e) ELSE @]

(* resource_manager_load_session_from_handle *)
resource_manager_load_session_from_handle(st, c, h, will_flush) ==
    LET es == session_list_lookup_handle(st.active, h) IN
    IF es = {} THEN st
    ELSE LET e == CHOOSE x \in es : TRUE IN
         IF e.conn # c THEN st
         ELSE IF e.state # "SAVED_RM" THEN st
         ELSE IF Failing(st, "loadS", h)
         THEN [Logged(st, "session_load", h, "loadS", h) EXCEPT
                 !.active = session_list_remove(@, e)]
         ELSE LET l == [e EXCEPT !.state = "LOADED"] IN
              [Logged(st, "session_load", h, "loadS", h) EXCEPT
                 !.active = IF will_flush
                            THEN session_list_remove(@, e)
                            ELSE session_list_insert(session_list_remove(@, e), l)]

\* as resource_manager_load_auth_callback, but the continueSession attribute is
\* not looked at: no session is dropped at load time
RECURSIVE load_auth_callback_never_flush(_, _, _)
load_auth_callback_never_flush(st, c, auths) ==
    IF auths = <<>> THEN st
    ELSE LET a == Head(auths)
             s == IF IsSession(a.handle)
                  THEN resource_manager_load_session_from_handle(
                           st, c, a.handle.n, FALSE)
                  ELSE st
         IN load_auth_callback_never_flush(s, c, Tail(auths))

(* resource_manager_load_auth_callback, folded over the auth area *)
RECURSIVE resource_manager_load_auth_callback(_, _, _)
resource_manager_load_auth_callback(st, c, auths) ==
    IF auths = <<>> THEN st
    ELSE LET a == Head(auths)
             s == IF IsSession(a.handle)
                  THEN resource_manager_load_session_from_handle(
                           st, c, a.handle.n, ~a.cont)
                  ELSE st
         IN resource_manager_load_auth_callback(s, c, Tail(auths))

(* resource_manager_load_handles: the loop over the handle area, from position i *)
RECURSIVE resource_manager_load_handles(_, _, _, _)
resource_manager_load_handles(st, c, hs, i) ==
    IF i > Len(hs) THEN st
    ELSE LET h == hs[i]
             s == IF h.t = "T" \/ h.t = "P"
                  THEN resource_manager_load_transient(st, c, h.n, i)
                  ELSE IF IsSession(h)
                  THEN resource_manager_load_session_from_handle(st, c, h.n, FALSE)
                  ELSE st
         IN resource_manager_load_handles(s, c, hs, i + 1)

\* as resource_manager_flushsave_context, but the context saved is that of the
\* lowest physical handle in use
flushsave_context_lowest_handle(st, c, v) ==
    LET es == handle_map_vlookup(st.hmap[c], v) IN
    IF es = {} THEN st
    ELSE LET p == (CHOOSE e \in es : TRUE).phandle IN
         IF p = 0 THEN st
         ELSE IF Failing(st, "saveflush", v)
         THEN Logged(st, "context_saveflush", p, "saveflush", v)
         ELSE [Logged(st, "context_saveflush", p, "saveflush", v) EXCEPT
                 !.hmap[c] = handle_map_entry_saved(@, v, st.tpm[Min(Resident(st.tpm))]),
                 !.tpm[p] = 0]

(* resource_manager_flushsave_context *)
resource_manager_flushsave_context(st, c, v) ==
    LET es == handle_map_vlookup(st.hmap[c], v) IN
    IF es = {} THEN st
    ELSE LET p == (CHOOSE e \in es : TRUE).phandle IN
         IF p = 0 THEN st      \* handle type of 0 is not TPM2_HT_TRANSIENT
         ELSE IF Failing(st, "saveflush", v)
         THEN Logged(st, "context_saveflush", p, "saveflush", v)
         ELSE [Logged(st, "context_saveflush", p, "saveflush", v) EXCEPT
                 !.hmap[c] = handle_map_entry_saved(@, v, st.tpm[p]),
                 !.tpm[p] = 0]

\* as resource_manager_save_session_context, but the entry's state is not set
\* after the context was saved
save_session_context_state_not_set(st, h) ==
    LET es == session_list_lookup_handle(st.active, h) IN
    IF es = {} THEN st
    ELSE LET e == CHOOSE x \in es : TRUE IN
         IF e.state # "LOADED" THEN st
         ELSE IF Failing(st, "saveS", h)
         THEN [Logged(Logged(st, "session_save", h, "saveS", h),
                      "context_flush", h, "flush", h) EXCEPT
                 !.active = session_list_remove(@, e)]
         ELSE Logged(st, "session_save", h, "saveS", h)

\* as resource_manager_save_session_context, but after a failed save the
\* session is neither flushed nor removed
save_session_context_failure_ignored(st, h) ==
    LET es == session_list_lookup_handle(st.active, h) IN
    IF es = {} THEN st
    ELSE LET e == CHOOSE x \in es : TRUE IN
         IF e.state # "LOADED" THEN st
         ELSE IF Failing(st, "saveS", h)
         THEN Logged(st, "session_save", h, "saveS", h)
         ELSE [Logged(st, "session_save", h, "saveS", h) EXCEPT
                 !.active = session_list_insert(session_list_remove(@, e),
                                                [e EXCEPT !.state = "SAVED_RM"])]

(* resource_manager_save_session_context *)
resource_manager_save_session_context(st, h) ==
    LET es == session_list_lookup_handle(st.active, h) IN
    IF es = {} THEN st
    ELSE LET e == CHOOSE x \in es : TRUE IN
         IF e.state # "LOADED" THEN st
         ELSE IF Failing(st, "saveS", h)
         THEN [Logged(Logged(st, "session_save", h, "saveS", h),
                      "context_flush", h, "flush", h) EXCEPT
                 !.active = session_list_remove(@, e)]
         ELSE [Logged(st, "session_save", h, "saveS", h) EXCEPT
                 !.active = session_list_insert(session_list_remove(@, e),
                                                [e EXCEPT !.state = "SAVED_RM"])]

(* session_list_foreach (..., resource_manager_save_session_context, ...) *)
RECURSIVE save_sessions(_, _)
save_sessions(st, hs) ==
    IF hs = <<>> THEN st
    ELSE save_sessions(resource_manager_save_session_context(st, Head(hs)), Tail(hs))

(* ------------------------------------------------------------- responses *)
Response(rc, h) == [rc |-> rc, handle |-> h, more |-> FALSE, list |-> <<>>]
NoResponse == Response("NONE", NoHandle)

\* what a special-processing function returns: the state and the response,
\* NoResponse standing for NULL
Ret(st, resp) == [st |-> st, resp |-> resp]

\* as resource_manager_save_context_session, but the connections are not
\* compared
save_context_session_any_owner(st, cmd) ==
    LET h  == cmd.handles[1].n
        es == session_list_lookup_handle(st.active, h)
    IN IF es = {} THEN Ret(st, NoResponse)
       ELSE LET e == CHOOSE x \in es : TRUE IN
            Ret([st EXCEPT !.active =
                    session_list_insert(session_list_remove(@, e),
                                        [e EXCEPT !.state = "SAVED_CLIENT"])],
                Response("SUCCESS", NoHandle))

(* resource_manager_save_context_session *)
resource_manager_save_context_session(st, cmd) ==
    LET h  == cmd.handles[1].n
        es == session_list_lookup_handle(st.active, h)
    IN IF es = {} THEN Ret(st, NoResponse)
       ELSE LET e == CHOOSE x \in es : TRUE IN
            IF cmd.conn # e.conn THEN Ret(st, NoResponse)
            ELSE Ret([st EXCEPT !.active =
                         session_list_insert(session_list_remove(@, e),
                                             [e EXCEPT !.state = "SAVED_CLIENT"])],
                     Response("SUCCESS", NoHandle))

(* resource_manager_save_context *)
resource_manager_save_context(st, cmd) ==
    IF Len(cmd.handles) > 0 /\ IsSession(cmd.handles[1])
    THEN resource_manager_save_context_session(st, cmd)
    ELSE Ret(st, NoResponse)

\* as resource_manager_load_context_session, but a claimed session keeps the
\* connection that abandoned it
load_context_session_owner_kept(st, cmd) ==
    LET es == session_list_lookup_context_client(st.active, st.abandoned, cmd.ctx.n)
    IN IF es = {} THEN Ret(st, NoResponse)
       ELSE LET e == CHOOSE x \in es : TRUE IN
            IF cmd.conn # e.conn
            THEN IF ~session_list_claim_ok(st.abandoned, e)
                 THEN Ret(st, NoResponse)
                 ELSE Ret([st EXCEPT
                             !.abandoned = SeqRemoveHandle(@, e.handle),
                             !.active = session_list_insert(@,
                                 SessionEntry(e.handle, e.conn, "SAVED_RM"))],
                          Response("SUCCESS", H("S", e.handle)))
            ELSE Ret([st EXCEPT !.active =
                        session_list_insert(session_list_remove(@, e),
                                            [e EXCEPT !.state = "SAVED_RM"])],
                     Response("SUCCESS", H("S", e.handle)))

\* as resource_manager_load_context_session, but the result of the claim is
\* not tested
load_context_session_claim_any(st, cmd) ==
    LET es == session_list_lookup_context_client(st.active, st.abandoned, cmd.ctx.n)
    IN IF es = {} THEN Ret(st, NoResponse)
       ELSE LET e == CHOOSE x \in es : TRUE IN
            Ret([st EXCEPT
                    !.abandoned = SeqRemoveHandle(@, e.handle),
                    !.active = session_list_insert(session_list_remove(@, e),
                                   SessionEntry(e.handle, cmd.conn, "SAVED_RM"))],
                Response("SUCCESS", H("S", e.handle)))

\* as resource_manager_load_context_session, but the state of the caller's own
\* session is not set
load_context_session_state_not_set(st, cmd) ==
    LET es == session_list_lookup_context_client(st.active, st.abandoned, cmd.ctx.n)
    IN IF es = {} THEN Ret(st, NoResponse)
       ELSE LET e == CHOOSE x \in es : TRUE IN
            IF cmd.conn # e.conn
            THEN IF ~session_list_claim_ok(st.abandoned, e)
                 THEN Ret(st, NoResponse)
                 ELSE Ret([st EXCEPT
                             !.abandoned = SeqRemoveHandle(@, e.handle),
                             !.active = session_list_insert(@,
                                 SessionEntry(e.handle, cmd.conn, "SAVED_RM"))],
                          Response("SUCCESS", H("S", e.handle)))
            ELSE Ret(st, Response("SUCCESS", H("S", e.handle)))

(* resource_manager_load_context_session *)
resource_manager_load_context_session(st, cmd) ==
    LET es == session_list_lookup_context_client(st.active, st.abandoned, cmd.ctx.n)
    IN IF es = {} THEN Ret(st, NoResponse)
       ELSE LET e == CHOOSE x \in es : TRUE IN
            IF cmd.conn # e.conn
            THEN IF ~session_list_claim_ok(st.abandoned, e)
                 THEN Ret(st, NoResponse)
                 ELSE Ret([st EXCEPT
                             !.abandoned = SeqRemoveHandle(@, e.handle),
                             !.active = session_list_insert(@,
                                 SessionEntry(e.handle, cmd.conn, "SAVED_RM"))],
                          Response("SUCCESS", H("S", e.handle)))
            ELSE Ret([st EXCEPT !.active =
                         session_list_insert(session_list_remove(@, e),
                                             [e EXCEPT !.state = "SAVED_RM"])],
                     Response("SUCCESS", H("S", e.handle)))

(* resource_manager_load_context: when the unmarshal fails, savedHandle is *)
(* read uninitialised and uninit is the handle type the read yields        *)
resource_manager_load_context(st, cmd, uninit) ==
    LET t == IF cmd.ctx.t = "X" THEN uninit ELSE cmd.ctx.t IN
    IF t = "S" THEN resource_manager_load_context_session(st, cmd)
    ELSE Ret(st, NoResponse)

\* as resource_manager_flush_context, but a mapped transient handle is passed
\* on to the TPM like a session handle
flush_context_transient_forwarded(st, cmd) ==
    LET h == cmd.fh
        c == cmd.conn
    IN IF IsTransient(h)
       THEN IF handle_map_vlookup(st.hmap[c], h.n) # {}
            THEN Ret([st EXCEPT !.hmap[c] = handle_map_remove(@, h.n)], NoResponse)
            ELSE Ret(st, Response("RC_HANDLE_P_1", NoHandle))
       ELSE IF IsSession(h)
       THEN Ret([st EXCEPT
                   !.active = {e \in @ : e.handle # h.n},
                   !.abandoned = SeqRemoveHandle(@, h.n)],
                NoResponse)
       ELSE Ret(st, NoResponse)

\* as resource_manager_flush_context, but the lookup result is not tested: an
\* unmapped transient handle is answered with success
flush_context_unmapped_succeeds(st, cmd) ==
    LET h == cmd.fh
        c == cmd.conn
    IN IF IsTransient(h)
       THEN Ret([st EXCEPT !.hmap[c] = handle_map_remove(@, h.n)],
                Response("SUCCESS", NoHandle))
       ELSE IF IsSession(h)
       THEN Ret([st EXCEPT
                   !.active = {e \in @ : e.handle # h.n},
                   !.abandoned = SeqRemoveHandle(@, h.n)],
                NoResponse)
       ELSE Ret(st, NoResponse)

\* as resource_manager_flush_context, but the flush of a session handle is
\* answered by the RM
flush_context_session_answered(st, cmd) ==
    LET h == cmd.fh
        c == cmd.conn
    IN IF IsTransient(h)
       THEN IF handle_map_vlookup(st.hmap[c], h.n) # {}
            THEN Ret([st EXCEPT !.hmap[c] = handle_map_remove(@, h.n)],
                     Response("SUCCESS", NoHandle))
            ELSE Ret(st, Response("RC_HANDLE_P_1", NoHandle))
       ELSE IF IsSession(h)
       THEN Ret([st EXCEPT
                   !.active = {e \in @ : e.handle # h.n},
                   !.abandoned = SeqRemoveHandle(@, h.n)],
                Response("SUCCESS", NoHandle))
       ELSE Ret(st, NoResponse)

(* resource_manager_flush_context *)
resource_manager_flush_context(st, cmd) ==
    LET h == cmd.fh
        c == cmd.conn
    IN IF IsTransient(h)
       THEN IF handle_map_vlookup(st.hmap[c], h.n) # {}
            THEN Ret([st EXCEPT !.hmap[c] = handle_map_remove(@, h.n)],
                     Response("SUCCESS", NoHandle))
            ELSE Ret(st, Response("RC_HANDLE_P_1", NoHandle))
       ELSE IF IsSession(h)
       THEN Ret([st EXCEPT
                   !.active = {e \in @ : e.handle # h.n},
                   !.abandoned = SeqRemoveHandle(@, h.n)],
                NoResponse)
       ELSE Ret(st, NoResponse)

\* as resource_manager_quota_check, but Load and LoadExternal are missing from
\* the switch
quota_check_create_primary_only(st, cmd) ==
    IF cmd.code = "CreatePrimary"
    THEN IF handle_map_is_full(st.hmap[cmd.conn]) THEN "OBJECT_MEMORY" ELSE "SUCCESS"
    ELSE IF cmd.code = "StartAuthSession"
    THEN IF session_list_is_full(st.active, cmd.conn)
         THEN "SESSION_MEMORY" ELSE "SUCCESS"
    ELSE "SUCCESS"

\* as resource_manager_quota_check, but the session quota is tested against the
\* HandleMap
quota_check_sessions_by_handle_map(st, cmd) ==
    IF cmd.code \in {"CreatePrimary", "Load", "LoadExternal"}
    THEN IF handle_map_is_full(st.hmap[cmd.conn]) THEN "OBJECT_MEMORY" ELSE "SUCCESS"
    ELSE IF cmd.code = "StartAuthSession"
    THEN IF handle_map_is_full(st.hmap[cmd.conn])
         THEN "SESSION_MEMORY" ELSE "SUCCESS"
    ELSE "SUCCESS"

(* resource_manager_quota_check *)
resource_manager_quota_check(st, cmd) ==
    IF cmd.code \in {"CreatePrimary", "Load", "LoadExternal"}
    THEN IF handle_map_is_full(st.hmap[cmd.conn]) THEN "OBJECT_MEMORY" ELSE "SUCCESS"
    ELSE IF cmd.code = "StartAuthSession"
    THEN IF session_list_is_full(st.active, cmd.conn)
         THEN "SESSION_MEMORY" ELSE "SUCCESS"
    ELSE "SUCCESS"

(* vhandle_iterator_callback, folded over the sorted vhandle list; *)
\* as vhandle_iterator_callback, but a vhandle equal to the start value is
\* skipped too
RECURSIVE vhandle_iterator_callback_above_start(_, _, _, _)
vhandle_iterator_callback_above_start(vs, start_handle, max_count, acc) ==
    IF vs = <<>> THEN acc
    ELSE LET v == Head(vs)
             a == IF v <= start_handle THEN acc
                  ELSE IF ~(Len(acc.list) < max_count)
                  THEN [acc EXCEPT !.more = TRUE]
                  ELSE [acc EXCEPT !.list = Append(@, v)]
         IN vhandle_iterator_callback_above_start(Tail(vs), start_handle, max_count, a)

(* acc = [list, more]                                               *)
RECURSIVE vhandle_iterator_callback(_, _, _, _)
vhandle_iterator_callback(vs, start_handle, max_count, acc) ==
    IF vs = <<>> THEN acc
    ELSE LET v == Head(vs)
             a == IF v < start_handle THEN acc
                  ELSE IF ~(Len(acc.list) < max_count)
                  THEN [acc EXCEPT !.more = TRUE]
                  ELSE [acc EXCEPT !.list = Append(@, v)]
         IN vhandle_iterator_callback(Tail(vs), start_handle, max_count, a)

(* get_cap_handles *)
get_cap_handles(map, prop, count) ==
    vhandle_iterator_callback(SortedSeq(handle_map_get_keys(map)), prop, count,
                              [list |-> <<>>, more |-> FALSE])

\* as get_cap_handles_response, but the handles of every connection's
\* HandleMap are listed
get_cap_handles_response_all_maps(st, cmd) ==
    IF cmd.cap = "HANDLES" /\ IsTransient(cmd.prop)
    THEN LET r == get_cap_handles(UNION {st.hmap[d] : d \in Conns}, cmd.prop.n, cmd.count) IN
         Ret(st, [rc |-> "SUCCESS", handle |-> NoHandle,
                  more |-> r.more, list |-> r.list])
    ELSE Ret(st, NoResponse)

(* get_cap_handles_response *)
get_cap_handles_response(st, cmd) ==
    IF cmd.cap = "HANDLES" /\ IsTransient(cmd.prop)
    THEN LET r == get_cap_handles(st.hmap[cmd.conn], cmd.prop.n, cmd.count) IN
         Ret(st, [rc |-> "SUCCESS", handle |-> NoHandle,
                  more |-> r.more, list |-> r.list])
    ELSE Ret(st, NoResponse)

(* command_special_processing *)
command_special_processing(st, cmd, uninit) ==
    CASE cmd.code = "FlushContext"  -> resource_manager_flush_context(st, cmd)
      [] cmd.code = "ContextSave"   -> resource_manager_save_context(st, cmd)
      [] cmd.code = "ContextLoad"   -> resource_manager_load_context(st, cmd, uninit)
      [] cmd.code = "GetCapability" -> get_cap_handles_response(st, cmd)
      [] OTHER                      -> Ret(st, NoResponse)

\* as create_context_mapping_transient, but a rolled-over vhandle is not fatal:
\* the response is passed on as it came
create_context_mapping_transient_no_abort(st, c, p) ==
    LET v == handle_map_next_vhandle(st.vcount[c]) IN
    IF v = 0
    THEN Ret(st, Response("SUCCESS", H("P", p)))
    ELSE Ret([st EXCEPT
                !.vcount[c] = v,
                !.hmap[c] = handle_map_insert(@, HandleMapEntry(v, p)),
                !.slist = <<v, v>> \o @],
             Response("SUCCESS", H("T", v)))

(* create_context_mapping_transient: p is the physical handle in the response. *)
(* The entry is prepended to the loaded-transients list twice.                 *)
create_context_mapping_transient(st, c, p) ==
    LET v == handle_map_next_vhandle(st.vcount[c]) IN
    IF v = 0
    THEN Ret([st EXCEPT !.aborted = TRUE], NoResponse)      \* g_error
    ELSE Ret([st EXCEPT
                !.vcount[c] = v,
                !.hmap[c] = handle_map_insert(@, HandleMapEntry(v, p)),
                !.slist = <<v, v>> \o @],
             Response("SUCCESS", H("T", v)))

\* as create_context_mapping_session, but without the lookup of the handle
create_context_mapping_session_no_lookup(st, c, h) ==
    [st EXCEPT !.active = session_list_insert(@, SessionEntry(h, c, "LOADED"))]

(* create_context_mapping_session *)
create_context_mapping_session(st, c, h) ==
    IF session_list_lookup_handle(st.active, h) # {}
    THEN st
    ELSE [st EXCEPT !.active = session_list_insert(@, SessionEntry(h, c, "LOADED"))]

(* resource_manager_create_context_mapping *)
resource_manager_create_context_mapping(st, c, resp) ==
    IF resp.handle = NoHandle THEN Ret(st, resp)
    ELSE IF IsTransient(resp.handle)
    THEN create_context_mapping_transient(st, c, resp.handle.n)
    ELSE IF IsSession(resp.handle)
    THEN Ret(create_context_mapping_session(st, c, resp.handle.n), resp)
    ELSE Ret(st, resp)

(* remove_entry_from_handle_map, folded over the loaded-transients list *)
RECURSIVE remove_entry_from_handle_map(_, _, _)
remove_entry_from_handle_map(st, c, vs) ==
    IF vs = <<>> THEN st
    ELSE remove_entry_from_handle_map(
             [st EXCEPT !.hmap[c] = handle_map_remove(@, Head(vs))], c, Tail(vs))

RECURSIVE flushsave_all(_, _, _)
flushsave_all(st, c, vs) ==
    IF vs = <<>> THEN st
    ELSE flushsave_all(resource_manager_flushsave_context(st, c, Head(vs)), c, Tail(vs))

\* as post_process_loaded_transients, but the FLUSHED attribute is not looked
\* at: the loaded entries are always saved and flushed
post_process_always_flushsave(st, c, flushed) ==
    flushsave_all(st, c, st.slist)

(* post_process_loaded_transients *)
post_process_loaded_transients(st, c, flushed) ==
    IF ~flushed
    THEN flushsave_all(st, c, st.slist)
    ELSE remove_entry_from_handle_map(st, c, st.slist)

(* access_broker_send_command for the client's command: o.resp is what the  *)
(* TPM answers ("null": no response object, a transport failure).  A command *)
(* with the FLUSHED attribute that succeeds evicts the transient objects of  *)
(* its handle area from the TPM; a response that creates a transient object  *)
(* makes it resident.                                                        *)
access_broker_send_command(st, cmd, o) ==
    LET ok   == o.resp \in {"ok", "transient", "session"}
        sent == {st.handles[i].n : i \in {j \in 1 .. Len(st.handles) : st.handles[j].t = "P"}}
        t1   == [q \in Phandles |->
                    IF ok /\ cmd.flushed /\ q \in sent THEN 0 ELSE st.tpm[q]]
        p    == FreePhys(t1)
        made == o.resp = "transient" /\ p # 0   \* else the TPM is out of object memory
        resp == CASE o.resp = "null"      -> Response("TRANSPORT", NoHandle)
                  [] o.resp = "error"     -> Response("TPM_ERROR", NoHandle)
                  [] o.resp = "ok"        -> Response("SUCCESS", NoHandle)
                  [] o.resp = "transient" -> IF made THEN Response("SUCCESS", H("P", p))
                                             ELSE Response("TPM_ERROR", NoHandle)
                  [] o.resp = "session"   -> Response("SUCCESS", H("S", o.sh))
    IN Ret([st EXCEPT
              !.tpm = IF made THEN [t1 EXCEPT ![p] = o.obj] ELSE t1,
              !.calls = Append(@, Call("send", 0, o.resp # "null"))],
           resp)

(* resource_manager_process_tpm2_command: the result is the state after the *)
(* command, the response put on the sink and whether the command was sent   *)
(* to the AccessBroker                                                      *)
Done(st, resp, fwd) == [st |-> st, resp |-> resp, fwd |-> fwd]

\* as Finish, but the sessions are not saved after an error response
finish_error_skips_save(st, cmd, resp, fwd) ==
    IF st.aborted THEN Done(st, NoResponse, fwd)
    ELSE LET s1 == IF resp.rc = "SUCCESS"
                   THEN save_sessions(st, session_list_order(st.active))
                   ELSE st
             s2 == post_process_loaded_transients(s1, cmd.conn, cmd.flushed)
         IN Done(s2, resp, fwd)

Finish(st, cmd, resp, fwd) ==
    \* send_response: sink_enqueue, then save the sessions, then the transients
    IF st.aborted THEN Done(st, NoResponse, fwd)
    ELSE LET s1 == save_sessions(st, session_list_order(st.active))
             s2 == post_process_loaded_transients(s1, cmd.conn, cmd.flushed)
         IN Done(s2, resp, fwd)

\* as resource_manager_process_tpm2_command, but a command that fails the
\* quota check is dropped without a response
process_tpm2_command_quota_silent(st, cmd, o) ==
    LET rc == resource_manager_quota_check(st, cmd) IN
    IF rc # "SUCCESS" THEN Done(st, NoResponse, FALSE)
    ELSE LET sp == command_special_processing(st, cmd, o.uninit) IN
         IF sp.resp # NoResponse THEN Finish(sp.st, cmd, sp.resp, FALSE)
         ELSE LET s1 == IF Len(cmd.handles) > 0
                        THEN resource_manager_load_handles(sp.st, cmd.conn, cmd.handles, 1)
                        ELSE sp.st
                  s2 == resource_manager_load_auth_callback(s1, cmd.conn, cmd.auths)
                  r  == access_broker_send_command(s2, cmd, o)
                  m  == resource_manager_create_context_mapping(r.st, cmd.conn, r.resp)
              IN Finish(m.st, cmd, m.resp, TRUE)

resource_manager_process_tpm2_command(st, cmd, o) ==
    LET rc == resource_manager_quota_check(st, cmd) IN
    IF rc # "SUCCESS" THEN Finish(st, cmd, Response(rc, NoHandle), FALSE)
    ELSE LET sp == command_special_processing(st, cmd, o.uninit) IN
         IF sp.resp # NoResponse THEN Finish(sp.st, cmd, sp.resp, FALSE)
         ELSE LET s1 == IF Len(cmd.handles) > 0
                        THEN resource_manager_load_handles(sp.st, cmd.conn, cmd.handles, 1)
                        ELSE sp.st
                  s2 == resource_manager_load_auth_callback(s1, cmd.conn, cmd.auths)
                  r  == access_broker_send_command(s2, cmd, o)
                  m  == resource_manager_create_context_mapping(r.st, cmd.conn, r.resp)
              IN Finish(m.st, cmd, m.resp, TRUE)

\* as flush_session_callback, but the context is not flushed from the TPM
flush_session_callback_no_flush(st, e) == st

\* as flush_session_callback, but a failed flush is fatal
flush_session_callback_failure_fatal(st, e) ==
    IF Failing(st, "flush", e.handle)
    THEN [Logged(st, "context_flush", e.handle, "flush", e.handle) EXCEPT !.aborted = TRUE]
    ELSE Logged(st, "context_flush", e.handle, "flush", e.handle)

(* flush_session_callback *)
flush_session_callback(st, e) ==
    Logged(st, "context_flush", e.handle, "flush", e.handle)

(* session_list_prune_abandoned *)
RECURSIVE session_list_prune_abandoned(_)
session_list_prune_abandoned(st) ==
    IF Len(st.abandoned) <= MAX_ABANDONED THEN st
    ELSE session_list_prune_abandoned(
             flush_session_callback([st EXCEPT !.abandoned = Tail(@)],
                                    Head(st.abandoned)))

(* session_list_abandon_handle *)
session_list_abandon_handle(st, c, h) ==
    LET es == {e \in st.active : e.handle = h /\ e.conn = c} IN
    IF es = {} THEN st
    ELSE LET e == CHOOSE x \in es : TRUE IN
         [st EXCEPT !.active = session_list_remove(@, e),
                    !.abandoned = Append(@, [e EXCEPT !.state = "SAVED_CLIENT_CLOSED"])]

\* as connection_close_session_callback, but the abandoned FIFO is not pruned
\* after a session was abandoned
connection_close_session_callback_no_prune(st, c, h) ==
    LET es == session_list_lookup_handle(st.active, h) IN
    IF es = {} \/ st.aborted THEN st
    ELSE LET e == CHOOSE x \in es : TRUE IN
         IF e.conn # c THEN st
         ELSE IF e.state = "SAVED_CLIENT"
         THEN session_list_abandon_handle(st, c, h)
         ELSE IF e.state = "SAVED_RM"
         THEN [Logged(st, "context_flush", h, "flush", h) EXCEPT
                 !.active = session_list_remove(@, e)]
         ELSE [st EXCEPT !.aborted = TRUE]

\* as connection_close_session_callback, but a session whose flush failed is
\* kept in the SessionList
connection_close_session_callback_keep_on_error(st, c, h) ==
    LET es == session_list_lookup_handle(st.active, h) IN
    IF es = {} \/ st.aborted THEN st
    ELSE LET e == CHOOSE x \in es : TRUE IN
         IF e.conn # c THEN st
         ELSE IF e.state = "SAVED_CLIENT"
         THEN session_list_prune_abandoned(session_list_abandon_handle(st, c, h))
         ELSE IF e.state = "SAVED_RM"
         THEN IF Failing(st, "flush", h)
              THEN Logged(st, "context_flush", h, "flush", h)
              ELSE [Logged(st, "context_flush", h, "flush", h) EXCEPT
                      !.active = session_list_remove(@, e)]
         ELSE [st EXCEPT !.aborted = TRUE]

\* as connection_close_session_callback, but the connections are not compared
connection_close_session_callback_any_owner(st, c, h) ==
    LET es == session_list_lookup_handle(st.active, h) IN
    IF es = {} \/ st.aborted THEN st
    ELSE LET e == CHOOSE x \in es : TRUE IN
         IF e.state = "SAVED_CLIENT"
         THEN session_list_prune_abandoned(session_list_abandon_handle(st, e.conn, h))
         ELSE IF e.state = "SAVED_RM"
         THEN [Logged(st, "context_flush", h, "flush", h) EXCEPT
                 !.active = session_list_remove(@, e)]
         ELSE [st EXCEPT !.aborted = TRUE]

(* connection_close_session_callback *)
connection_close_session_callback(st, c, h) ==
    LET es == session_list_lookup_handle(st.active, h) IN
    IF es = {} \/ st.aborted THEN st
    ELSE LET e == CHOOSE x \in es : TRUE IN
         IF e.conn # c THEN st
         ELSE IF e.state = "SAVED_CLIENT"
         THEN session_list_prune_abandoned(session_list_abandon_handle(st, c, h))
         ELSE IF e.state = "SAVED_RM"
         THEN [Logged(st, "context_flush", h, "flush", h) EXCEPT
                 !.active = session_list_remove(@, e)]
         ELSE [st EXCEPT !.aborted = TRUE]                   \* g_error

(* resource_manager_remove_connection *)
RECURSIVE resource_manager_remove_connection(_, _, _)
resource_manager_remove_connection(st, c, hs) ==
    IF hs = <<>> THEN st
    ELSE resource_manager_remove_connection(
             connection_close_session_callback(st, c, Head(hs)), c, Tail(hs))

(* ------------------------------------------------------------- messages *)
MaxHandles == 2     \* handles in the handle area of a modelled command
MaxCount   == 3     \* largest propertyCount of a modelled GetCapability

Cmd(c, code, handles, auths, fh, ctx, cap, prop, count, flushed) ==
    [conn |-> c, code |-> code, handles |-> handles, auths |-> auths, fh |-> fh,
     ctx |-> ctx, cap |-> cap, prop |-> prop, count |-> count, flushed |-> flushed]

Plain(c, code, handles, auths, flushed) ==
    Cmd(c, code, handles, auths, NoHandle, NoHandle, "NONE", NoHandle, 0, flushed)

NoCmd == Plain(0, "NONE", <<>>, <<>>, FALSE)

\* obj names the transient object the TPM makes when it answers "transient"
Oracle(resp, sh, uninit) == [resp |-> resp, sh |-> sh, uninit |-> uninit, obj |-> 1]

THandleAreas ==
    UNION {[1 .. n -> {H("T", v) : v \in Vhandles}] : n \in 0 .. MaxHandles}

\* commands about transient objects
TransientCmds(c) ==
       {Plain(c, code, <<>>, <<>>, FALSE) : code \in {"CreatePrimary", "LoadExternal"}}
  \cup {Plain(c, "Load", <<H("T", v)>>, <<>>, FALSE) : v \in Vhandles}
  \cup {Cmd(c, "FlushContext", <<>>, <<>>, H("T", v), NoHandle, "NONE", NoHandle, 0, FALSE) :
            v \in Vhandles}
  \cup {Plain(c, "ContextSave", <<H("T", v)>>, <<>>, FALSE) : v \in Vhandles}
  \cup {Cmd(c, "ContextLoad", <<>>, <<>>, NoHandle, H(t, 0), "NONE", NoHandle, 0, FALSE) :
            t \in {"T", "X"}}
  \cup {Cmd(c, "GetCapability", <<>>, <<>>, NoHandle, NoHandle, "HANDLES", H("T", v), n, FALSE) :
            v \in Vhandles, n \in 0 .. MaxCount}
  \cup {Cmd(c, "GetCapability", <<>>, <<>>, NoHandle, NoHandle, "OTHER", H("O", 0), 1, FALSE)}
  \cup {Plain(c, "Other", hs, <<>>, f) : hs \in THandleAreas, f \in BOOLEAN}

\* what the TPM may answer to a command about transient objects
TransientOracles(cmd) ==
    {Oracle(r, 0, u) :
        r \in {"null", "error", "ok"} \cup
              (IF cmd.code \in {"CreatePrimary", "Load", "LoadExternal", "ContextLoad"}
                  \/ (cmd.code = "Other" /\ ~cmd.flushed)
               THEN {"transient"} ELSE {}),
        u \in IF cmd.ctx.t = "X" THEN {"S", "O"} ELSE {"O"}}

\* the AccessBroker calls that can fail while cmd is processed
CmdFaults(cmd, o) ==
       {Fault("loadT", i) : i \in {j \in 1 .. Len(cmd.handles) : cmd.handles[j].t = "T"}}
  \cup {Fault("saveflush", cmd.handles[i].n) :
            i \in {j \in 1 .. Len(cmd.handles) : cmd.handles[j].t = "T"}}
  \cup (IF o.resp = "transient"
        THEN {Fault("saveflush", handle_map_next_vhandle(vcount[cmd.conn]))} ELSE {})
  \cup {Fault(k, h.n) : k \in {"loadS", "saveS"},
                        h \in {x \in SeqToSet(cmd.handles) \cup
                                     {cmd.auths[i].handle : i \in DOMAIN cmd.auths} :
                                 x.t = "S"}}
  \cup (IF o.resp = "session" THEN {Fault("saveS", o.sh)} ELSE {})

Tracked == {e.handle : e \in active} \cup {abandoned[i].handle : i \in DOMAIN abandoned}

FaultSets(F) == {f \in SUBSET F : Cardinality(f) <= MaxFaults - nfaults}

(* ------------------------------------------------------------------ Init *)
\* the session a command names: in its flush handle, its context body, its
\* handle area or its auth area (0: none)
NamedSession(cmd) ==
    LET hs == {cmd.handles[i] : i \in DOMAIN cmd.handles}
              \cup {cmd.auths[i].handle : i \in DOMAIN cmd.auths}
        ss == {h.n : h \in {x \in hs : IsSession(x)}}
    IN IF IsSession(cmd.fh) THEN cmd.fh.n
       ELSE IF cmd.ctx.t = "S" THEN cmd.ctx.n
       ELSE IF ss # {} THEN Min(ss)
       ELSE 0

\* the SessionEntry that tracks h, in either collection
NoEntry == SessionEntry(0, 0, "NONE")
EntryOf(h) ==
    LET es == {e \in active \cup SeqToSet(abandoned) : e.handle = h}
    IN IF es = {} THEN NoEntry ELSE CHOOSE e \in es : TRUE

\* nabd is the length of the abandoned FIFO when the message was dequeued, was
\* the entry of the session the command names as it was then
NoLast == [kind |-> "NONE", cmd |-> NoCmd, resp |-> NoResponse, fwd |-> FALSE,
           calls |-> <<>>, sent |-> <<>>, nabd |-> 0, was |-> NoEntry]

Init ==
    /\ connected = Conns
    /\ hmap = [c \in Conns |-> {}]
    /\ vcount = [c \in Conns |-> 0]
    /\ active = {}
    /\ abandoned = <<>>
    /\ tpm = [p \in Phandles |-> 0]
    /\ aborted = FALSE
    /\ nfaults = 0
    /\ last = NoLast
    /\ in_queue = <<>>
    /\ sink = <<>>
    /\ done = FALSE
    /\ nmsgs = 0

(* --------------------------------------------------------------- actions *)
\* the worker dequeues the TPM command cmd and processes it
Process(cmd, o, faults) ==
    /\ ~aborted
    /\ last = NoLast
    /\ cmd.conn \in connected
    /\ \E d \in {resource_manager_process_tpm2_command(Work(cmd, faults), cmd, o)} :
         /\ hmap' = d.st.hmap
         /\ vcount' = d.st.vcount
         /\ active' = d.st.active
         /\ abandoned' = d.st.abandoned
         /\ tpm' = d.st.tpm
         /\ aborted' = d.st.aborted
         /\ nfaults' = nfaults + Cardinality(d.st.hit)
         /\ last' = [kind |-> "COMMAND", cmd |-> cmd, resp |-> d.resp, fwd |-> d.fwd,
                     calls |-> d.st.calls,
                     sent |-> IF d.fwd THEN d.st.handles ELSE <<>>,
                     nabd |-> Len(abandoned),
                     was |-> EntryOf(NamedSession(cmd))]
    /\ UNCHANGED connected

TransientCommand ==
    /\ last = NoLast /\ ~aborted
    /\ UNCHANGED qvars
    /\ \E c \in connected : \E cmd \in TransientCmds(c) : \E o \in TransientOracles(cmd) :
        \E f \in FaultSets(CmdFaults(cmd, o)) : Process(cmd, o, f)

\* the worker dequeues CONNECTION_REMOVED (c) and processes it
ConnectionRemoved(c, faults) ==
    /\ ~aborted
    /\ last = NoLast
    /\ c \in connected
    /\ \E s \in {resource_manager_remove_connection(
                       Work(NoCmd, faults), c, session_list_order(active))} :
          /\ active' = s.active
          /\ abandoned' = s.abandoned
          /\ aborted' = s.aborted
          /\ nfaults' = nfaults + Cardinality(s.hit)
          /\ last' = [kind |-> "CONNECTION_REMOVED", cmd |-> Plain(c, "NONE", <<>>, <<>>, FALSE),
                      resp |-> NoResponse, fwd |-> FALSE, calls |-> s.calls, sent |-> <<>>,
                      nabd |-> Len(abandoned), was |-> NoEntry]
    /\ connected' = connected \ {c}
    /\ hmap' = [hmap EXCEPT ![c] = {}]         \* the HandleMap goes with the Connection
    /\ vcount' = [vcount EXCEPT ![c] = 0]
    /\ UNCHANGED tpm

RemoveConnection ==
    /\ last = NoLast /\ ~aborted
    /\ UNCHANGED qvars
    /\ \E c \in connected :
        \E f \in FaultSets({Fault("flush", h) : h \in Tracked}) : ConnectionRemoved(c, f)

\* the worker is done with the message and blocks on the queue again: the
\* record of what the finished message did is dropped
Dequeue ==
    /\ last # NoLast
    /\ last' = NoLast
    /\ UNCHANGED <<connected, hmap, vcount, active, abandoned, tpm, aborted, nfaults>>
    /\ UNCHANGED qvars

\* commands about sessions: a session handle may stand in the handle area, in
\* the auth area, or in both
SessionAreas(HS) ==
       {[handles |-> <<H("S", h)>>, auths |-> <<>>] : h \in HS}
  \cup {[handles |-> <<>>, auths |-> <<[handle |-> H("S", h), cont |-> k]>>] :
            h \in HS, k \in BOOLEAN}
  \cup {[handles |-> <<H("S", h)>>, auths |-> <<[handle |-> H("S", h), cont |-> k]>>] :
            h \in HS, k \in BOOLEAN}

\* the commands that create, export, import and flush the sessions HS
LifecycleCmds(c, HS) ==
       {Plain(c, "StartAuthSession", <<>>, <<>>, FALSE)}
  \cup {Cmd(c, "FlushContext", <<>>, <<>>, H("S", h), NoHandle, "NONE", NoHandle, 0, FALSE) :
            h \in HS}
  \cup {Plain(c, "ContextSave", <<H("S", h)>>, <<>>, FALSE) : h \in HS}
  \cup {Cmd(c, "ContextLoad", <<>>, <<>>, NoHandle, H("S", b), "NONE", NoHandle, 0, FALSE) :
            b \in HS}

\* and the commands that use them
SessionCmds(c, HS) ==
    LifecycleCmds(c, HS) \cup {Plain(c, "Other", a.handles, a.auths, FALSE) : a \in SessionAreas(HS)}

\* The session handle of a response: the TPM gives a new session the lowest
\* handle that no tracked session holds, or answers with the handle of a
\* session of the active collection (a context it still knows).
FreshSession(HS) == IF HS \ Tracked = {} THEN {} ELSE {Min(HS \ Tracked)}

SessionOracles(cmd, HS) ==
    {Oracle(r, 0, "O") : r \in {"null", "error", "ok"}}
    \cup (IF cmd.code = "StartAuthSession"
          THEN {Oracle("session", h, "O") : h \in FreshSession(HS)}
          ELSE IF cmd.code = "ContextLoad"
          THEN {Oracle("session", h, "O") : h \in FreshSession(HS) \cup {e.handle : e \in active}}
          ELSE {})

SessionCommand ==
    /\ last = NoLast /\ ~aborted
    /\ UNCHANGED qvars
    /\ \E c \in connected : \E cmd \in SessionCmds(c, Sessions) :
        \E o \in SessionOracles(cmd, Sessions) :
            \E f \in FaultSets(CmdFaults(cmd, o)) : Process(cmd, o, f)

\* enough session handles to overflow the abandoned FIFO
ManySessions == 1 .. (MAX_ABANDONED + 1)

\* here the TPM answers StartAuthSession with an error or a new session, and
\* any other life-cycle command that reaches it with success
LifecycleOracles(cmd, HS) ==
    IF cmd.code = "StartAuthSession"
    THEN {Oracle("error", 0, "O")} \cup {Oracle("session", h, "O") : h \in FreshSession(HS)}
    ELSE {Oracle("ok", 0, "O")}

LifecycleCommand ==
    /\ last = NoLast /\ ~aborted
    /\ UNCHANGED qvars
    /\ \E c \in connected : \E cmd \in LifecycleCmds(c, ManySessions) :
        \E o \in LifecycleOracles(cmd, ManySessions) :
            \E f \in FaultSets(CmdFaults(cmd, o)) : Process(cmd, o, f)

NextTransient == TransientCommand \/ RemoveConnection \/ Dequeue

SpecTransient == Init /\ [][NextTransient]_vars

NextSession == SessionCommand \/ RemoveConnection \/ Dequeue

SpecSession == Init /\ [][NextSession]_vars

NextAbandon == LifecycleCommand \/ RemoveConnection \/ Dequeue

SpecAbandon == Init /\ [][NextAbandon]_vars

\* Transient objects told apart: the object the TPM makes for a command of
\* connection c is named after c and the vhandle the RM will give it, so that
\* what a TPM slot or a saved context holds can be compared with the vhandle
\* that stands for it.
NumStable == 2      \* connections that send commands while objects are told apart

ObjId(c, v) == (c - 1) * (VhandleRange + 1) + v + 1

\* the commands that make, use, export and remove transient objects
StableCmds(c) == {cmd \in TransientCmds(c) : cmd.code # "GetCapability"}

StableOracles(cmd) ==
    {[o EXCEPT !.obj = ObjId(cmd.conn, handle_map_next_vhandle(vcount[cmd.conn]))] :
        o \in TransientOracles(cmd)}

StableCommand ==
    /\ last = NoLast /\ ~aborted
    /\ UNCHANGED qvars
    /\ \E c \in connected \cap (1 .. NumStable) :
        \E cmd \in StableCmds(c) : \E o \in StableOracles(cmd) :
        \E f \in FaultSets(CmdFaults(cmd, o)) : Process(cmd, o, f)

NextStable == StableCommand \/ RemoveConnection \/ Dequeue

SpecStable == Init /\ [][NextStable]_vars

\* GetCapability (HANDLES) as a function of the HandleMap, the start handle
\* and the count: the maps of two connections are drawn from every set of
\* vhandles up to CapHandles, and every start handle and count around them is
\* asked for.
CapHandles == 4     \* largest vhandle of a HandleMap GetCapability is asked about

CapMaps == SUBSET {HandleMapEntry(v, 0) : v \in 1 .. CapHandles}

InitGetCap ==
    /\ connected = Conns
    /\ \E m1 \in CapMaps : \E m2 \in CapMaps :
          hmap = [c \in Conns |-> IF c = 1 THEN m1 ELSE IF c = 2 THEN m2 ELSE {}]
    /\ vcount = [c \in Conns |-> CapHandles]
    /\ active = {}
    /\ abandoned = <<>>
    /\ tpm = [p \in Phandles |-> 0]
    /\ aborted = FALSE
    /\ nfaults = 0
    /\ last = NoLast
    /\ in_queue = <<>>
    /\ sink = <<>>
    /\ done = FALSE
    /\ nmsgs = 0

GetCapCmds(c) ==
    {Cmd(c, "GetCapability", <<>>, <<>>, NoHandle, NoHandle, "HANDLES", H("T", v), n, FALSE) :
        v \in 0 .. (CapHandles + 1), n \in 0 .. (CapHandles + 1)}

GetCapCommand ==
    /\ last = NoLast /\ ~aborted
    /\ UNCHANGED qvars
    /\ \E c \in connected : \E cmd \in GetCapCmds(c) :
          Process(cmd, Oracle("ok", 0, "O"), {})

NextGetCap == GetCapCommand \/ Dequeue

SpecGetCap == InitGetCap /\ [][NextGetCap]_vars

\* The worker thread on its queue. Producers enqueue TPM commands and control
\* messages; the worker dequeues the oldest message, processes it and puts
\* what it made of it on the sink.
MaxMsgs == 3        \* messages enqueued in one run

Message(id, kind, cmd) == [id |-> id, kind |-> kind, cmd |-> cmd]

Control(c) == Plain(c, "NONE", <<>>, <<>>, FALSE)

\* what the sink receives: the response to a command, or a control message
SinkItem(id, kind, c, resp) == [id |-> id, kind |-> kind, conn |-> c, resp |-> resp]

\* connections whose CONNECTION_REMOVED is waiting in the queue
Closing == {in_queue[i].cmd.conn :
               i \in {j \in DOMAIN in_queue : in_queue[j].kind = "CONNECTION_REMOVED"}}

EngineCmds(c) ==
    {cmd \in TransientCmds(c) :
        \/ cmd.code \in {"CreatePrimary", "FlushContext"}
        \/ cmd.code = "Other" /\ Len(cmd.handles) = 1 /\ ~cmd.flushed}

\* resource_manager_enqueue: a producer puts a message on the queue. A
\* connection sends nothing once its CONNECTION_REMOVED is under way.
(* message_queue_enqueue, message_queue_dequeue: the queue is first in,    *)
(* first out; dequeue is only called on a queue that holds a message       *)
message_queue_enqueue(q, m) == Append(q, m)

message_queue_dequeue(q) == [obj |-> Head(q), rest |-> Tail(q)]

\* sink_enqueue: the sink receives the items in the order they are given to it
sink_enqueue(s, x) == Append(s, x)

\* what the connections C and the unblock path can put on the queue
Producible(C) ==
         {Message(nmsgs + 1, k, NoCmd) : k \in {"CHECK_CANCEL", "UNKNOWN", "NULL"}}
    \cup {Message(nmsgs + 1, "CONNECTION_REMOVED", Control(c)) : c \in C}
    \cup {Message(nmsgs + 1, "COMMAND", cmd) : cmd \in UNION {EngineCmds(c) : c \in C}}

EnqueueFrom(C) ==
    /\ nmsgs < MaxMsgs
    /\ ~aborted
    /\ nmsgs' = nmsgs + 1
    /\ \E m \in Producible(C) : in_queue' = message_queue_enqueue(in_queue, m)
    /\ UNCHANGED <<connected, hmap, vcount, active, abandoned, tpm, aborted, nfaults, last,
                   sink, done>>

Enqueue == EnqueueFrom(connected \ Closing)

\* the same with one client only
EnqueueOne == EnqueueFrom((connected \ Closing) \cap {1})

Ready == ~done /\ ~aborted /\ last = NoLast /\ in_queue # <<>>

\* resource_manager_thread: a Tpm2Command is dequeued
WorkerCommand ==
    /\ Ready
    /\ message_queue_dequeue(in_queue).obj.kind = "COMMAND"
    /\ in_queue' = message_queue_dequeue(in_queue).rest
    /\ \E cmd \in {message_queue_dequeue(in_queue).obj.cmd} : \E o \in TransientOracles(cmd) :
        \E f \in FaultSets(CmdFaults(cmd, o)) : Process(cmd, o, f)
    /\ sink' = IF last'.resp = NoResponse     \* g_error before sink_enqueue
               THEN sink
               ELSE sink_enqueue(sink, SinkItem(message_queue_dequeue(in_queue).obj.id, "RESPONSE",
                                          message_queue_dequeue(in_queue).obj.cmd.conn, last'.resp))
    /\ UNCHANGED <<done, nmsgs>>

ControlCodes == {"CHECK_CANCEL", "CONNECTION_REMOVED", "UNKNOWN"}

\* as resource_manager_process_control, but CHECK_CANCEL does not end the thread
process_control_cancel_goes_on(code) ==
    CASE code = "CHECK_CANCEL"       -> [remove |-> FALSE, enqueue |-> TRUE, ret |-> TRUE]
      [] code = "CONNECTION_REMOVED" -> [remove |-> TRUE, enqueue |-> TRUE, ret |-> TRUE]
      [] OTHER                       -> [remove |-> FALSE, enqueue |-> FALSE, ret |-> TRUE]

\* as resource_manager_process_control, but an unknown control code ends the
\* thread
process_control_unknown_stops(code) ==
    CASE code = "CHECK_CANCEL"       -> [remove |-> FALSE, enqueue |-> TRUE, ret |-> FALSE]
      [] code = "CONNECTION_REMOVED" -> [remove |-> TRUE, enqueue |-> TRUE, ret |-> TRUE]
      [] OTHER                       -> [remove |-> FALSE, enqueue |-> FALSE, ret |-> FALSE]

(* resource_manager_process_control: whether the connection is removed, whether *)
(* the message is put on the sink, and the value returned (FALSE ends the      *)
(* thread)                                                                     *)
resource_manager_process_control(code) ==
    CASE code = "CHECK_CANCEL"       -> [remove |-> FALSE, enqueue |-> TRUE, ret |-> FALSE]
      [] code = "CONNECTION_REMOVED" -> [remove |-> TRUE, enqueue |-> TRUE, ret |-> TRUE]
      [] OTHER                       -> [remove |-> FALSE, enqueue |-> FALSE, ret |-> TRUE]

\* resource_manager_thread: a ControlMessage is dequeued
WorkerControl ==
    /\ Ready
    /\ message_queue_dequeue(in_queue).obj.kind \in ControlCodes
    /\ in_queue' = message_queue_dequeue(in_queue).rest
    /\ UNCHANGED nmsgs
    /\ \E m \in {message_queue_dequeue(in_queue).obj} : \E r \in {resource_manager_process_control(m.kind)} :
          /\ IF r.remove
             THEN \E f \in FaultSets({Fault("flush", h) : h \in Tracked}) :
                     ConnectionRemoved(m.cmd.conn, f)
             ELSE UNCHANGED <<connected, hmap, vcount, active, abandoned, tpm, aborted,
                              nfaults, last>>
          /\ sink' = IF r.enqueue /\ ~aborted'
                     THEN sink_enqueue(sink, SinkItem(m.id, m.kind, m.cmd.conn, NoResponse))
                     ELSE sink
          /\ done' = ~r.ret

\* resource_manager_thread: message_queue_dequeue returns NULL
WorkerNull ==
    /\ Ready
    /\ message_queue_dequeue(in_queue).obj.kind = "NULL"
    /\ in_queue' = message_queue_dequeue(in_queue).rest
    /\ done' = TRUE
    /\ UNCHANGED <<connected, hmap, vcount, active, abandoned, tpm, aborted, nfaults, last,
                   sink, nmsgs>>

Worker == WorkerCommand \/ WorkerControl \/ WorkerNull \/ Dequeue

NextEngine == Enqueue \/ Worker

SpecEngine == Init /\ [][NextEngine]_vars

(* The worker thread loops on message_queue_dequeue, which returns as soon   *)
(* as the queue holds a message, and every AccessBroker call returns: a      *)
(* worker step that stays possible is taken.  Producers are free to stop.    *)
NextEngineOne == EnqueueOne \/ Worker

SpecEngineFair == Init /\ [][NextEngineOne]_vars /\ WF_vars(Worker)

(* ---------------------------------------------------------------- claims *)
SavedStates == {"SAVED_RM", "SAVED_CLIENT", "SAVED_CLIENT_CLOSED"}

AbandonedHandles == {abandoned[i].handle : i \in DOMAIN abandoned}

SessionsOwned(c) == {e \in active : e.conn = c}

LoadingCodes == {"CreatePrimary", "Load", "LoadExternal"}

HasCall(op, ok) == \E i \in DOMAIN last.calls : last.calls[i].op = op /\ last.calls[i].ok = ok

\* C1: at every quiescent command boundary, on every path (a failing
\* context_saveflush included), every HandleMapEntry of every connection has
\* phandle = 0.
C1_PhandleZeroAtBoundary ==
    ~aborted => \A c \in Conns : \A e \in hmap[c] : e.phandle = 0

\* C2: at every quiescent command boundary no tracked SessionEntry is in state
\* LOADED: every entry of the active set and of the abandoned FIFO is in
\* SAVED_RM, SAVED_CLIENT or SAVED_CLIENT_CLOSED.
C2_NoSessionLoadedAtBoundary ==
    ~aborted => \A e \in active \cup SeqToSet(abandoned) : e.state \in SavedStates

\* a command loaded a session for its use and the session was saved again
C2_Witness ==
    /\ last.kind = "COMMAND"
    /\ HasCall("session_load", TRUE)
    /\ HasCall("session_save", TRUE)
    /\ \E e \in active : e.state = "SAVED_RM"
                         /\ \E i \in DOMAIN last.calls :
                               last.calls[i] = Call("session_save", e.handle, TRUE)

C4_AbandonedBounded == Len(abandoned) <= MAX_ABANDONED

\* a connection was removed while the FIFO was full and one of its sessions
\* was abandoned: the oldest entry was pruned
C4_Witness ==
    /\ last.kind = "CONNECTION_REMOVED"
    /\ last.nabd = MAX_ABANDONED
    /\ Len(abandoned) = MAX_ABANDONED
    /\ abandoned[MAX_ABANDONED].conn = last.cmd.conn
    /\ \E i \in DOMAIN last.calls : last.calls[i].op = "context_flush"

\* C5: at every quiescent boundary the HandleMap of every connection holds at
\* most the transient cap of entries, whatever command produced the handle.
C5_HandleMapWithinCap ==
    ~aborted => \A c \in Conns : Cardinality(hmap[c]) <= TransientCap

\* C6: at every quiescent boundary every connection owns at most the
\* per-connection session cap of SessionEntries, claimed sessions and sessions
\* created by forwarded commands included.
C6_SessionsWithinCap ==
    ~aborted => \A c \in Conns : Cardinality(SessionsOwned(c)) <= SessionCap

\* C7: when a connection whose HandleMap is full sends CreatePrimary, Load or
\* LoadExternal, the response carries RESMGR_RC_OBJECT_MEMORY, the command is
\* not sent to the AccessBroker and the HandleMap is unchanged.
C7_TransientQuotaRejects ==
    [][(/\ last'.kind = "COMMAND"
        /\ last'.cmd.code \in LoadingCodes
        /\ handle_map_is_full(hmap[last'.cmd.conn]))
       => (/\ last'.resp.rc = "OBJECT_MEMORY"
           /\ ~last'.fwd
           /\ \A i \in DOMAIN last'.calls : last'.calls[i].op # "send"
           /\ hmap' = hmap)]_vars

C7_Witness ==
    /\ last.kind = "COMMAND"
    /\ last.cmd.code \in LoadingCodes
    /\ last.resp.rc = "OBJECT_MEMORY"
    /\ handle_map_is_full(hmap[last.cmd.conn])

\* C8: when a connection whose session count is at the per-connection cap
\* sends StartAuthSession, the response carries RESMGR_RC_SESSION_MEMORY, the
\* command is not forwarded and the SessionList is unchanged.
C8_SessionQuotaRejects ==
    [][(/\ last'.kind = "COMMAND"
        /\ last'.cmd.code = "StartAuthSession"
        /\ session_list_is_full(active, last'.cmd.conn))
       => (/\ last'.resp.rc = "SESSION_MEMORY"
           /\ ~last'.fwd
           /\ \A i \in DOMAIN last'.calls : last'.calls[i].op # "send"
           /\ active' = active
           /\ abandoned' = abandoned)]_vars

C8_Witness ==
    /\ last.kind = "COMMAND"
    /\ last.cmd.code = "StartAuthSession"
    /\ last.resp.rc = "SESSION_MEMORY"
    /\ session_list_is_full(active, last.cmd.conn)

\* C9: a FlushContext of a transient vhandle mapped in the caller's HandleMap
\* removes exactly that entry, is answered with success and makes no
\* AccessBroker call of any kind.
C9_FlushMappedTransient ==
    [][(/\ last'.kind = "COMMAND"
        /\ last'.cmd.code = "FlushContext"
        /\ IsTransient(last'.cmd.fh)
        /\ handle_map_vlookup(hmap[last'.cmd.conn], last'.cmd.fh.n) # {})
       => (/\ hmap' = [hmap EXCEPT ![last'.cmd.conn] =
                          @ \ handle_map_vlookup(@, last'.cmd.fh.n)]
           /\ Cardinality(hmap'[last'.cmd.conn]) + 1 = Cardinality(hmap[last'.cmd.conn])
           /\ last'.resp.rc = "SUCCESS"
           /\ ~last'.fwd
           /\ last'.calls = <<>>)]_vars

C9_Witness ==
    /\ last.kind = "COMMAND"
    /\ last.cmd.code = "FlushContext"
    /\ IsTransient(last.cmd.fh)
    /\ last.resp.rc = "SUCCESS"
    /\ ~last.fwd
    /\ handle_map_vlookup(hmap[last.cmd.conn], last.cmd.fh.n) = {}

\* C10: a FlushContext of a transient handle that is not in the caller's
\* HandleMap is answered with RC_HANDLE | RC_P | RC_1, leaves the HandleMap
\* unchanged and is not forwarded to the AccessBroker.
C10_FlushUnmappedTransient ==
    [][(/\ last'.kind = "COMMAND"
        /\ last'.cmd.code = "FlushContext"
        /\ IsTransient(last'.cmd.fh)
        /\ handle_map_vlookup(hmap[last'.cmd.conn], last'.cmd.fh.n) = {})
       => (/\ last'.resp.rc = "RC_HANDLE_P_1"
           /\ hmap' = hmap
           /\ ~last'.fwd
           /\ \A i \in DOMAIN last'.calls : last'.calls[i].op # "send")]_vars

\* the caller's HandleMap holds another entry, which the rejected FlushContext
\* left alone
C10_Witness ==
    /\ last.kind = "COMMAND"
    /\ last.cmd.code = "FlushContext"
    /\ IsTransient(last.cmd.fh)
    /\ last.resp.rc = "RC_HANDLE_P_1"
    /\ hmap[last.cmd.conn] # {}

\* the sessions the message being recorded in last' names
Cmd1 == last'.cmd
IsCommand(code) == last'.kind = "COMMAND" /\ last'.cmd.code = code
SendCalls(calls) == {i \in DOMAIN calls : calls[i].op = "send"}
TrackedEntries == active \cup SeqToSet(abandoned)
Replaced(act, e, st) == (act \ {e}) \cup {[e EXCEPT !.state = st]}

\* C11 (as claimed): a FlushContext of a session handle removes the session
\* from both collections of the SessionList and is forwarded to the TPM only if
\* the session was LOADED; for a session in SAVED_RM, SAVED_CLIENT or
\* SAVED_CLIENT_CLOSED no AccessBroker call is made.
C11_SessionFlushForwardedOnlyIfLoaded ==
    [][(IsCommand("FlushContext") /\ IsSession(Cmd1.fh))
       => (/\ active' = {e \in active : e.handle # Cmd1.fh.n}
           /\ abandoned' = SeqRemoveHandle(abandoned, Cmd1.fh.n)
           /\ (last'.fwd => last'.was.state = "LOADED")
           /\ (last'.was.state \in SavedStates => last'.calls = <<>>))]_vars

\* C11 (amended): a FlushContext of a session handle removes the session from
\* both collections of the SessionList and is always forwarded to the TPM,
\* whatever the state of the session; the send is the only AccessBroker call.
C11_SessionFlushAlwaysForwarded ==
    [][(IsCommand("FlushContext") /\ IsSession(Cmd1.fh))
       => (/\ active' = {e \in active : e.handle # Cmd1.fh.n}
           /\ abandoned' = SeqRemoveHandle(abandoned, Cmd1.fh.n)
           /\ last'.fwd
           /\ Len(last'.calls) = 1
           /\ last'.calls[1].op = "send")]_vars

\* the session flushed sat in the abandoned FIFO
C11_Witness ==
    /\ last.kind = "COMMAND"
    /\ last.cmd.code = "FlushContext"
    /\ IsSession(last.cmd.fh)
    /\ last.was.state = "SAVED_CLIENT_CLOSED"
    /\ last.fwd
    /\ Len(abandoned) + 1 = last.nabd
    /\ EntryOf(last.cmd.fh.n) = NoEntry

C13_SaveLoadRoundTrip ==
    [][/\ (IsCommand("ContextLoad") /\ Cmd1.ctx.t = "S")
          => \A e \in active :
                (e.handle = Cmd1.ctx.n /\ e.conn = Cmd1.conn /\ e.state = "SAVED_CLIENT")
                => /\ last'.resp = Response("SUCCESS", H("S", e.handle))
                   /\ ~last'.fwd
                   /\ active' = Replaced(active, e, "SAVED_RM")
                   /\ abandoned' = abandoned
       /\ (IsCommand("Other") /\ Len(Cmd1.handles) > 0 /\ IsSession(Cmd1.handles[1]))
          => \A e \in active :
                (e.handle = Cmd1.handles[1].n /\ e.conn = Cmd1.conn /\ e.state = "SAVED_RM")
                => /\ last'.calls[1].op = "session_load"
                   /\ last'.calls[1].n = e.handle
                   /\ last'.calls[1].ok
                      => \E i \in DOMAIN last'.calls :
                            /\ last'.calls[i].op = "session_save"
                            /\ last'.calls[i].n = e.handle
                            /\ i > Min(SendCalls(last'.calls))]_vars

\* the owner has presented the bytes of its exported session again
C13_Witness ==
    /\ last.kind = "COMMAND"
    /\ last.cmd.code = "ContextLoad"
    /\ last.was.state = "SAVED_CLIENT"
    /\ last.was.conn = last.cmd.conn
    /\ last.resp = Response("SUCCESS", H("S", last.was.handle))
    /\ EntryOf(last.was.handle) = [last.was EXCEPT !.state = "SAVED_RM"]

Closed(e) == [e EXCEPT !.state = "SAVED_CLIENT_CLOSED"]
CallsOf(calls, op, n) == {i \in DOMAIN calls : calls[i].op = op /\ calls[i].n = n}

\* C14: when a connection with a session in SAVED_CLIENT disconnects, the
\* session leaves the active set and is appended to the abandoned FIFO in
\* SAVED_CLIENT_CLOSED; when another connection then sends ContextLoad with the
\* saved bytes, the entry leaves the FIFO, is owned by that connection in
\* SAVED_RM, the RM answers with the original handle, and the new owner's next
\* command that names the handle loads the session.
C14_AbandonThenClaim ==
    [][/\ last'.kind = "CONNECTION_REMOVED"
          => LET A == {e \in active : e.conn = Cmd1.conn /\ e.state = "SAVED_CLIENT"}
             IN /\ \A e \in A : e.handle \notin {x.handle : x \in active'}
                /\ Len(abandoned) + Cardinality(A) <= MAX_ABANDONED
                   => /\ Len(abandoned') = Len(abandoned) + Cardinality(A)
                      /\ SubSeq(abandoned', 1, Len(abandoned)) = abandoned
                      /\ SeqToSet(abandoned') = SeqToSet(abandoned) \cup {Closed(e) : e \in A}
       /\ (IsCommand("ContextLoad") /\ Cmd1.ctx.t = "S")
          => \A e \in SeqToSet(abandoned) :
                e.handle = Cmd1.ctx.n
                => /\ abandoned' = SeqRemoveHandle(abandoned, e.handle)
                   /\ active' = active \cup {SessionEntry(e.handle, Cmd1.conn, "SAVED_RM")}
                   /\ last'.resp = Response("SUCCESS", H("S", e.handle))
                   /\ ~last'.fwd
                   /\ last'.calls = <<>>
       /\ (IsCommand("Other") /\ NamedSession(Cmd1) # 0)
          => \A e \in active :
                (e.handle = NamedSession(Cmd1) /\ e.conn = Cmd1.conn /\ e.state = "SAVED_RM")
                => /\ CallsOf(last'.calls, "session_load", e.handle) # {}
                   /\ last'.fwd]_vars

\* a connection has claimed the session another connection abandoned
C14_Witness ==
    /\ last.kind = "COMMAND"
    /\ last.cmd.code = "ContextLoad"
    /\ last.was.state = "SAVED_CLIENT_CLOSED"
    /\ last.was.conn \notin connected
    /\ Len(abandoned) + 1 = last.nabd
    /\ EntryOf(last.was.handle) = SessionEntry(last.was.handle, last.cmd.conn, "SAVED_RM")
    /\ last.resp = Response("SUCCESS", H("S", last.was.handle))

\* C15: when a ContextLoad names the context of a session owned by another
\* connection that is not in the abandoned FIFO, the claim fails: the RM
\* answers with a synthesised error, the command is not forwarded to the TPM
\* and the entry's owner and state are unchanged.
C15_FailedClaimDenied ==
    [][(IsCommand("ContextLoad") /\ Cmd1.ctx.t = "S")
       => \A e \in active :
             (e.handle = Cmd1.ctx.n /\ e.conn # Cmd1.conn)
             => /\ ~last'.fwd
                /\ last'.resp.rc \notin {"SUCCESS", "NONE"}
                /\ e \in active']_vars

\* C16: a claim succeeds only for an entry that is in the abandoned FIFO: an
\* entry of the active set never changes its owner, an abandoned session comes
\* back to the active set only by a ContextLoad of its context, owned by the
\* sender and gone from the FIFO, and the RM answers a ContextLoad itself only
\* for a session of the sender or of the FIFO.
C16_ClaimOnlyFromFifo ==
    [][/\ \A e \in active : \A e2 \in active' :
             e2.handle = e.handle => e2.conn = e.conn
       /\ \A e2 \in active' :
             e2.handle \in AbandonedHandles
             => /\ IsCommand("ContextLoad")
                /\ Cmd1.ctx = H("S", e2.handle)
                /\ e2.conn = Cmd1.conn
                /\ e2.handle \notin {abandoned'[i].handle : i \in DOMAIN abandoned'}
       /\ (IsCommand("ContextLoad") /\ Cmd1.ctx.t = "S" /\ ~last'.fwd
             /\ last'.resp.rc = "SUCCESS")
          => \/ Cmd1.ctx.n \in AbandonedHandles
             \/ \E e \in active : e.handle = Cmd1.ctx.n /\ e.conn = Cmd1.conn]_vars

\* a connection sent ContextLoad with the context of a session that a
\* connected client owns: the entry is as it was
C16_Witness ==
    /\ last.kind = "COMMAND"
    /\ last.cmd.code = "ContextLoad"
    /\ last.was.state \in {"SAVED_RM", "SAVED_CLIENT"}
    /\ last.was.conn # last.cmd.conn
    /\ last.was.conn \in connected
    /\ last.nabd = Len(abandoned)
    /\ EntryOf(last.was.handle) = last.was
    /\ last.fwd

\* the entries of A as the close callback abandons them: in the order the
\* active collection is visited
AbandonOrder(A) ==
    LET hs == SortedSeq({e.handle : e \in A})
    IN [i \in 1 .. Len(hs) |-> Closed(CHOOSE e \in A : e.handle = hs[i])]
FlushCalls(calls) == {i \in DOMAIN calls : calls[i].op = "context_flush"}

\* C17: when a session is abandoned while the FIFO holds MAX_ABANDONED
\* entries, exactly one entry, the oldest, is evicted and exactly one
\* context_flush is issued for its handle; the FIFO then holds the
\* MAX_ABANDONED most recent entries in abandonment order. In general every
\* entry pushed out of the FIFO is flushed exactly once, next to the flushes
\* of the connection's SAVED_RM sessions.
C17_EvictOldest ==
    [][last'.kind = "CONNECTION_REMOVED"
       => LET A   == {e \in active : e.conn = Cmd1.conn /\ e.state = "SAVED_CLIENT"}
              R   == {e \in active : e.conn = Cmd1.conn /\ e.state = "SAVED_RM"}
              all == abandoned \o AbandonOrder(A)
              k   == IF Len(all) > MAX_ABANDONED THEN Len(all) - MAX_ABANDONED ELSE 0
              out == {all[i].handle : i \in 1 .. k}
          IN /\ abandoned' = SubSeq(all, k + 1, Len(all))
             /\ Cardinality(FlushCalls(last'.calls)) = Cardinality(R) + k
             /\ \A h \in out : Cardinality(CallsOf(last'.calls, "context_flush", h)) = 1
             /\ (Len(abandoned) = MAX_ABANDONED /\ Cardinality(A) = 1)
                => /\ k = 1
                   /\ out = {Head(abandoned).handle}
                   /\ abandoned' = Append(Tail(abandoned), AbandonOrder(A)[1])
                   /\ {last'.calls[i].n : i \in FlushCalls(last'.calls)}
                         = {Head(abandoned).handle} \cup {e.handle : e \in R}]_vars

\* the FIFO was full, one session was abandoned and one flush was issued, for
\* a session that is tracked no more
C17_Witness ==
    /\ last.kind = "CONNECTION_REMOVED"
    /\ last.nabd = MAX_ABANDONED
    /\ Len(abandoned) = MAX_ABANDONED
    /\ abandoned[MAX_ABANDONED].conn = last.cmd.conn
    /\ abandoned[MAX_ABANDONED - 1].conn # last.cmd.conn
    /\ Len(last.calls) = 1
    /\ last.calls[1].op = "context_flush"
    /\ last.calls[1].n \notin Tracked

\* the sessions in the handle area and the auth area of a command
AreaSessions(cmd) ==
    {h.n : h \in {x \in {cmd.handles[i] : i \in DOMAIN cmd.handles}
                         \cup {cmd.auths[i].handle : i \in DOMAIN cmd.auths} :
                    IsSession(x)}}

\* C18: when a command of one connection names, in its handle area or its
\* auth area, a session owned by another connection that is still connected,
\* no context load is issued for the session, its entry is unchanged and the
\* command is forwarded to the TPM with the handle as the client sent it.
C18_ForeignSessionNotLoaded ==
    [][last'.kind = "COMMAND"
       => \A e \in active :
             (/\ e.handle \in AreaSessions(Cmd1)
              /\ e.conn # Cmd1.conn
              /\ e.conn \in connected)
             => /\ CallsOf(last'.calls, "session_load", e.handle) = {}
                /\ e \in active'
                /\ last'.fwd
                /\ last'.sent = Cmd1.handles]_vars

\* a command carried another client's RM-saved session in its auth area and
\* went to the TPM without a load
C18_Witness ==
    /\ last.kind = "COMMAND"
    /\ last.cmd.code = "Other"
    /\ Len(last.cmd.auths) > 0
    /\ last.was.state = "SAVED_RM"
    /\ last.was.conn # last.cmd.conn
    /\ last.was.conn \in connected
    /\ last.fwd
    /\ Len(last.calls) = 1
    /\ EntryOf(last.was.handle) = last.was

\* C19: the locally answered GetCapability (HANDLES) lists exactly the
\* caller's vhandles that are >= prop, ascending, truncated to the first count
\* of them, and moreData is set if and only if a further vhandle >= prop
\* exists beyond those returned (count = 0 included).
C19_GetCapHandles ==
    (/\ last.kind = "COMMAND"
     /\ last.cmd.code = "GetCapability"
     /\ last.cmd.cap = "HANDLES"
     /\ IsTransient(last.cmd.prop))
    => LET ge == {v \in handle_map_get_keys(hmap[last.cmd.conn]) : v >= last.cmd.prop.n}
           n  == IF last.cmd.count < Cardinality(ge) THEN last.cmd.count
                 ELSE Cardinality(ge)
           L  == last.resp.list
       IN /\ ~last.fwd
          /\ last.resp.rc = "SUCCESS"
          /\ Len(L) = n
          /\ \A i \in 1 .. Len(L) :
                /\ L[i] \in ge
                /\ Cardinality({v \in ge : v < L[i]}) = i - 1
          /\ last.resp.more = (Cardinality(ge) > n)

\* a truncated answer: a vhandle of the caller below prop and a vhandle of
\* another connection above it were left out, and one of the caller's was cut
C19_Witness ==
    /\ last.kind = "COMMAND"
    /\ last.cmd.code = "GetCapability"
    /\ last.cmd.cap = "HANDLES"
    /\ last.resp.more
    /\ Len(last.resp.list) = 1
    /\ last.cmd.count = 1
    /\ \E e \in hmap[last.cmd.conn] : e.vhandle < last.cmd.prop.n
    /\ \E c \in Conns \ {last.cmd.conn} : \E e \in hmap[c] :
          /\ e.vhandle >= last.cmd.prop.n
          /\ e.vhandle \notin handle_map_get_keys(hmap[last.cmd.conn])

\* C20: the TPM never observes a virtual handle of a mapped entry: in every
\* forwarded command each transient handle of the handle area that is mapped
\* in the caller's HandleMap stands replaced, at the same position, by the
\* physical handle a context_load returned, and every response with a new
\* transient handle reaches the client with the vhandle, not the physical
\* handle.
C20_TpmNeverSeesVhandle ==
    [][(last'.kind = "COMMAND" /\ last'.fwd /\ ~aborted')
       => /\ \A i \in DOMAIN Cmd1.handles :
                (/\ IsTransient(Cmd1.handles[i])
                 /\ handle_map_vlookup(hmap[Cmd1.conn], Cmd1.handles[i].n) # {})
                => /\ last'.sent[i].t = "P"
                   /\ \E j \in CallsOf(last'.calls, "context_load", Cmd1.handles[i].n) :
                         /\ last'.calls[j].ok
                         /\ j < Min(SendCalls(last'.calls))
          /\ last'.resp.handle.t # "P"]_vars

\* C21: from its creation until its removal a vhandle of a connection stands
\* for the same transient object: the context its entry holds, once saved, is
\* that of the object made for the vhandle and never becomes another one, and
\* whenever the entry names a physical handle that handle holds this object,
\* whatever slot the loads chose.
C21_VhandleStable ==
    [][\A c \in Conns : \A e2 \in hmap'[c] :
          /\ e2.context \in {0, ObjId(c, e2.vhandle)}
          /\ e2.phandle # 0 => tpm'[e2.phandle] = ObjId(c, e2.vhandle)
          /\ \A e \in hmap[c] :
                (e.vhandle = e2.vhandle /\ e.context # 0) => e2.context = e.context]_vars

\* a vhandle was loaded into another slot than before, next to an object left
\* in the TPM, and was saved and flushed again
C21_Witness ==
    /\ last.kind = "COMMAND"
    /\ last.cmd.code = "Other"
    /\ last.cmd.conn = 2
    /\ \E i \in DOMAIN last.sent :
          /\ last.sent[i].t = "P"
          /\ last.sent[i].n # Min(Phandles)
          /\ tpm[Min(Phandles)] \notin {0, ObjId(2, last.cmd.handles[i].n)}
          /\ \E e \in hmap[2] :
                /\ e.vhandle = last.cmd.handles[i].n
                /\ e.context = ObjId(2, e.vhandle)
                /\ e.phandle = 0
    /\ \E j \in DOMAIN last.calls :
          last.calls[j].op = "context_saveflush" /\ last.calls[j].ok

\* C22: the vhandles of a connection come from a monotonic counter: a newly
\* assigned vhandle is nonzero, greater than every vhandle assigned earlier on
\* the connection (so not that of an outstanding entry and not one that was
\* flushed), and is what the client is told; when the counter has rolled over
\* (next vhandle 0) a response with a new transient handle aborts the process
\* and assigns nothing.
C22_VhandlesMonotonic ==
    [][\A c \in Conns :
          LET old == handle_map_get_keys(hmap[c])
              new == handle_map_get_keys(hmap'[c]) \ old
          IN /\ \A v \in old : 1 <= v /\ v <= vcount[c]
             /\ c \in connected' => vcount'[c] >= vcount[c]
             /\ \A v \in new : /\ v # 0
                               /\ v > vcount[c]
                               /\ v = vcount'[c]
                               /\ last'.resp.handle = H("T", v)
             /\ Cardinality(new) <= 1
             /\ handle_map_next_vhandle(vcount[c]) = 0 => new = {}
             /\ (\E q \in Phandles : tpm'[q] = ObjId(c, 0))   \* made at rollover
                => aborted' /\ last'.resp = NoResponse]_vars

\* the counter of a connection had rolled over and its map was empty again:
\* the next object made for it aborted the process, no old vhandle was reused
C22_Witness ==
    /\ aborted
    /\ last.kind = "COMMAND"
    /\ last.cmd.code = "CreatePrimary"
    /\ vcount[last.cmd.conn] = VhandleRange
    /\ hmap[last.cmd.conn] = {}
    /\ last.resp = NoResponse

(* C23: the worker that dequeues a CHECK_CANCEL message puts that message on *)
(* the sink and exits.  At that step every message enqueued before it has    *)
(* left the queue, its processing finished; and once the worker has exited   *)
(* nothing is processed any more: the sink, the TPM and the bookkeeping stay *)
(* as they are and every message enqueued later stays in the queue.          *)
Core == <<connected, hmap, vcount, active, abandoned, tpm, aborted, nfaults>>

QueueIds(q) == {q[i].id : i \in DOMAIN q}

C23_CancelEndsWorker ==
    [][/\ (~done /\ in_queue # <<>> /\ in_queue' = Tail(in_queue)
           /\ Head(in_queue).kind = "CHECK_CANCEL")
          => /\ done'
             /\ sink' = Append(sink, SinkItem(Head(in_queue).id, "CHECK_CANCEL", 0,
                                              NoResponse))
             /\ last = NoLast /\ last' = NoLast
             /\ \A i \in QueueIds(in_queue') : i > Head(in_queue).id
             /\ Core' = Core
       /\ done
          => /\ done'
             /\ sink' = sink
             /\ Core' = Core
             /\ QueueIds(in_queue) \subseteq QueueIds(in_queue')
             /\ last' = NoLast \/ last' = last]_vars

\* the worker processed a command, then exited on CHECK_CANCEL, and a command
\* enqueued after the CHECK_CANCEL is left in the queue
C23_Witness ==
    /\ done
    /\ Len(sink) = 2
    /\ sink[1].kind = "RESPONSE"
    /\ sink[2].kind = "CHECK_CANCEL"
    /\ in_queue # <<>>
    /\ Head(in_queue).kind = "COMMAND"
    /\ Head(in_queue).id > sink[2].id

(* C24: every TPM command the worker dequeues puts exactly one response on   *)
(* the sink, for the connection that sent it, and the responses are on the   *)
(* sink in the order the commands were dequeued (so, for each connection, in *)
(* the order of its commands).                                               *)
DequeuesCommand ==
    /\ ~done /\ ~aborted
    /\ in_queue # <<>>
    /\ in_queue' = Tail(in_queue)
    /\ Head(in_queue).kind = "COMMAND"

Responses(s) == {i \in DOMAIN s : s[i].kind = "RESPONSE"}

InDequeueOrder(s) ==
    \A i, j \in Responses(s) : i < j => s[i].id < s[j].id

C24_OneResponsePerCommand ==
    [][/\ DequeuesCommand
          => /\ Len(sink') = Len(sink) + 1
             /\ SubSeq(sink', 1, Len(sink)) = sink
             /\ sink'[Len(sink')] = SinkItem(Head(in_queue).id, "RESPONSE",
                                            Head(in_queue).cmd.conn, last'.resp)
             /\ last'.resp # NoResponse
       /\ ~DequeuesCommand => Responses(sink') = Responses(sink)
       /\ InDequeueOrder(sink')]_vars

(* C24, amended: the same for every dequeued command whose processing does   *)
(* not abort the process; a command that aborts it puts nothing on the sink. *)
C24_OneResponseUnlessAborted ==
    [][/\ (DequeuesCommand /\ ~aborted')
          => /\ Len(sink') = Len(sink) + 1
             /\ SubSeq(sink', 1, Len(sink)) = sink
             /\ sink'[Len(sink')] = SinkItem(Head(in_queue).id, "RESPONSE",
                                            Head(in_queue).cmd.conn, last'.resp)
             /\ last'.resp # NoResponse
       /\ (DequeuesCommand /\ aborted') => sink' = sink
       /\ ~DequeuesCommand => Responses(sink') = Responses(sink)
       /\ InDequeueOrder(sink')]_vars

\* three commands of one connection were answered, none of them aborting
C24_Witness ==
    /\ ~aborted
    /\ Len(sink) = 3
    /\ \A i \in 1 .. 3 : sink[i].kind = "RESPONSE" /\ sink[i].conn = 1 /\ sink[i].id = i
    /\ sink[2].resp.rc # "SUCCESS"

(* C25: between two commands no transient object is resident in the TPM:    *)
(* every physical handle a command obtained has been saved and flushed, or   *)
(* flushed, when the command is over, and no HandleMap entry holds a         *)
(* physical handle.                                                          *)
C25_NothingResidentBetweenCommands ==
    ~aborted => /\ Resident(tpm) = {}
                /\ \A c \in Conns : \A e \in hmap[c] : e.phandle = 0

(* C26: the RM context-loads a session only from SAVED_RM.  A command that   *)
(* names a session in SAVED_CLIENT or SAVED_CLIENT_CLOSED, in its handle     *)
(* area or its auth area, causes no context load of that session; the        *)
(* session is loaded again only once it is back in SAVED_RM.                 *)
SessionLoads(calls, h) == {i \in DOMAIN calls : calls[i].op = "session_load" /\ calls[i].n = h}

C26_LoadOnlyFromSavedRm ==
    [][last'.kind = "COMMAND"
       => \A h \in Sessions :
            /\ SessionLoads(last'.calls, h) # {}
               => \E e \in active : /\ e.handle = h
                                    /\ e.state = "SAVED_RM"
                                    /\ e.conn = last'.cmd.conn
            /\ (\E e \in active \cup SeqToSet(abandoned) :
                    e.handle = h /\ e.state \in {"SAVED_CLIENT", "SAVED_CLIENT_CLOSED"})
               => SessionLoads(last'.calls, h) = {}]_vars

\* a command of the owner that names its session, saved by the client, in the
\* auth area was sent to the TPM and the session was not loaded for it
C26_Witness ==
    /\ last.kind = "COMMAND"
    /\ last.cmd.code = "Other"
    /\ last.cmd.auths # <<>>
    /\ last.was.state = "SAVED_CLIENT"
    /\ last.was.conn = last.cmd.conn
    /\ last.was.handle = last.cmd.auths[1].handle.n
    /\ last.fwd
    /\ SessionLoads(last.calls, last.was.handle) = {}

(* C27: when the context load of a session a command names (owned by the     *)
(* caller, in SAVED_RM) fails, the entry is removed from the SessionList and *)
(* the response to that command is an error response.                        *)
FailedSessionLoad(calls, h) == \E i \in SessionLoads(calls, h) : ~calls[i].ok

C27_LoadFailureSurfaced ==
    [][\A h \in Sessions :
          (last'.kind = "COMMAND" /\ FailedSessionLoad(last'.calls, h))
          => /\ \A e \in active' \cup SeqToSet(abandoned') : e.handle # h
             /\ last'.resp.rc # "SUCCESS"]_vars

(* C28: a session named in the auth area of a command and loaded for it is  *)
(* dropped from the SessionList at load time, before the command is sent,   *)
(* when the continueSession attribute is clear, and no context save is      *)
(* issued for it; when the attribute is set it stays tracked and is in      *)
(* SAVED_RM when the command is over.  A session loaded from the handle     *)
(* area is not dropped at load time.                                        *)
InHandleArea(cmd, h) == \E i \in DOMAIN cmd.handles : cmd.handles[i] = H("S", h)
InAuthArea(cmd, h, k) ==
    \E i \in DOMAIN cmd.auths : cmd.auths[i] = [handle |-> H("S", h), cont |-> k]
LoadedFor(calls, h) == \E i \in SessionLoads(calls, h) : calls[i].ok
SessionSaves(calls, h) == {i \in DOMAIN calls : calls[i].op = "session_save" /\ calls[i].n = h}
TrackedAs(act, h, c, st) == \E e \in act : e.handle = h /\ e.conn = c /\ e.state = st
Untracked(act, abd, h) == \A e \in act \cup SeqToSet(abd) : e.handle # h

DroppedAtLoad(h) ==
    /\ Untracked(active', abandoned', h)
    /\ SessionSaves(last'.calls, h) = {}
    /\ FlushCalls(last'.calls) = {}
    /\ last'.fwd
    /\ \A i \in SessionLoads(last'.calls, h) : \A j \in SendCalls(last'.calls) : i < j

SaveFailed(calls, h) == \E i \in SessionSaves(calls, h) : ~calls[i].ok

C28_ContinueSession ==
    [][\A h \in Sessions :
          (last'.kind = "COMMAND" /\ LoadedFor(last'.calls, h))
          => /\ (InAuthArea(Cmd1, h, FALSE) /\ ~InHandleArea(Cmd1, h)) => DroppedAtLoad(h)
             /\ (InAuthArea(Cmd1, h, TRUE) /\ ~InHandleArea(Cmd1, h))
                => TrackedAs(active', h, Cmd1.conn, "SAVED_RM")
             /\ InHandleArea(Cmd1, h)
                => \/ TrackedAs(active', h, Cmd1.conn, "SAVED_RM")
                   \/ SaveFailed(last'.calls, h)]_vars

(* C28, amended: with the attribute set the session is in SAVED_RM when the  *)
(* command is over unless its context save failed; then it was flushed and   *)
(* is tracked no more.                                                       *)
C28_ContinueSessionUnlessSaveFails ==
    [][\A h \in Sessions :
          (last'.kind = "COMMAND" /\ LoadedFor(last'.calls, h))
          => /\ (InAuthArea(Cmd1, h, FALSE) /\ ~InHandleArea(Cmd1, h)) => DroppedAtLoad(h)
             /\ (InAuthArea(Cmd1, h, TRUE) /\ ~InHandleArea(Cmd1, h))
                => \/ /\ TrackedAs(active', h, Cmd1.conn, "SAVED_RM")
                      /\ ~SaveFailed(last'.calls, h)
                   \/ /\ SaveFailed(last'.calls, h)
                      /\ Untracked(active', abandoned', h)
                      /\ CallsOf(last'.calls, "context_flush", h) # {}
             /\ InHandleArea(Cmd1, h)
                => \/ TrackedAs(active', h, Cmd1.conn, "SAVED_RM")
                   \/ SaveFailed(last'.calls, h)]_vars

\* a session loaded from the auth area with the attribute clear is gone from
\* the SessionList although the TPM answered the command with an error
C28_Witness ==
    /\ last.kind = "COMMAND"
    /\ last.cmd.handles = <<>>
    /\ last.cmd.auths = <<[handle |-> H("S", last.was.handle), cont |-> FALSE]>>
    /\ last.was.state = "SAVED_RM"
    /\ LoadedFor(last.calls, last.was.handle)
    /\ last.fwd
    /\ last.resp.rc = "TPM_ERROR"
    /\ Untracked(active, abandoned, last.was.handle)

(* C29: when the context save of a loaded session, issued after the         *)
(* response of a command, fails, the RM calls context_flush on the session's *)
(* handle and removes the entry from the SessionList; the client's response  *)
(* is the one the command has without the failure.                           *)
C29_FailedSaveFlushes ==
    [][\A h \in Sessions :
          (last'.kind = "COMMAND" /\ SaveFailed(last'.calls, h))
          => /\ Cardinality(SessionSaves(last'.calls, h)) = 1
             /\ Cardinality(CallsOf(last'.calls, "context_flush", h)) = 1
             /\ \A i \in SessionSaves(last'.calls, h) :
                    /\ i + 1 \in CallsOf(last'.calls, "context_flush", h)
                    /\ \A j \in SendCalls(last'.calls) : j < i
             /\ Untracked(active', abandoned', h)
             /\ last'.resp # NoResponse
             /\ \E o \in SessionOracles(Cmd1, Sessions) :
                    last'.resp = resource_manager_process_tpm2_command(
                                     Work(Cmd1, {}), Cmd1, o).resp]_vars

\* the save of a session loaded for a command failed after the TPM had
\* answered the command with success: the session was flushed and is gone
C29_Witness ==
    /\ last.kind = "COMMAND"
    /\ last.was.state = "SAVED_RM"
    /\ SaveFailed(last.calls, last.was.handle)
    /\ CallsOf(last.calls, "context_flush", last.was.handle) # {}
    /\ last.resp.rc = "SUCCESS"
    /\ Untracked(active, abandoned, last.was.handle)

(* C30: when the connection c is removed, every session of c in SAVED_RM    *)
(* gets one context_flush call and leaves the SessionList, whether the      *)
(* flush succeeds or not; every session of c in SAVED_CLIENT leaves the     *)
(* active collection and is in the abandoned FIFO in SAVED_CLIENT_CLOSED,   *)
(* or was pushed out of the FIFO again and flushed.                         *)
OwnedBy(c, st) == {e \in active : e.conn = c /\ e.state = st}

C30_ConnectionRemoved ==
    [][last'.kind = "CONNECTION_REMOVED"
       => /\ ~aborted'
          /\ \A e \in OwnedBy(Cmd1.conn, "SAVED_RM") :
                /\ Cardinality(CallsOf(last'.calls, "context_flush", e.handle)) = 1
                /\ Untracked(active', abandoned', e.handle)
          /\ \A e \in OwnedBy(Cmd1.conn, "SAVED_CLIENT") :
                /\ \A x \in active' : x.handle # e.handle
                /\ \/ /\ Cardinality({i \in DOMAIN abandoned' : abandoned'[i] = Closed(e)}) = 1
                      /\ CallsOf(last'.calls, "context_flush", e.handle) = {}
                   \/ /\ Untracked(active', abandoned', e.handle)
                      /\ Len(abandoned') = MAX_ABANDONED
                      /\ Cardinality(CallsOf(last'.calls, "context_flush", e.handle)) = 1]_vars

\* a connection that owned a session in SAVED_RM and one in SAVED_CLIENT was
\* removed: the flush of the first failed and it is tracked no more, the
\* second is the newest entry of the abandoned FIFO
C30_Witness ==
    /\ last.kind = "CONNECTION_REMOVED"
    /\ Len(last.calls) = 1
    /\ last.calls[1].op = "context_flush"
    /\ ~last.calls[1].ok
    /\ last.calls[1].n \notin Tracked
    /\ Len(abandoned) = last.nabd + 1
    /\ abandoned[Len(abandoned)].conn = last.cmd.conn
    /\ abandoned[Len(abandoned)].state = "SAVED_CLIENT_CLOSED"

(* C31: the fatal branch of the connection-close reaper is never taken.     *)
(* Whenever a message has been processed every entry of the active          *)
(* collection is in SAVED_RM or SAVED_CLIENT and every entry of the         *)
(* abandoned FIFO is in SAVED_CLIENT_CLOSED, so when CONNECTION_REMOVED for *)
(* c is processed no session of c is LOADED or SAVED_CLIENT_CLOSED, and the *)
(* pass, the entries it abandons itself included, does not abort.           *)
C31_ReaperNeverAborts ==
    [][/\ \A e \in active' : e.state \in {"SAVED_RM", "SAVED_CLIENT"}
       /\ \A i \in DOMAIN abandoned' : abandoned'[i].state = "SAVED_CLIENT_CLOSED"
       /\ last'.kind = "CONNECTION_REMOVED"
          => /\ \A e \in active :
                   e.conn = Cmd1.conn => e.state \notin {"LOADED", "SAVED_CLIENT_CLOSED"}
             /\ ~aborted'
             /\ \A e \in active' : e.conn # Cmd1.conn]_vars

\* a connection was removed that owned two sessions in SAVED_CLIENT while the
\* abandoned FIFO held a session: both were abandoned in one pass
C31_Witness ==
    /\ last.kind = "CONNECTION_REMOVED"
    /\ ~aborted
    /\ last.nabd >= 1
    /\ Len(abandoned) = last.nabd + 2
    /\ \A i \in (last.nabd + 1) .. Len(abandoned) : abandoned[i].conn = last.cmd.conn

(* C32: when the context_flush of an abandoned session that is pushed out   *)
(* of the FIFO fails, the eviction goes on all the same: the entry is not   *)
(* kept, the sessions abandoned by the removed connection are in the FIFO,  *)
(* the FIFO holds at most MAX_ABANDONED entries, the process does not abort *)
(* and nothing is answered to a client.                                     *)
FailedFlush(calls, h) == \E i \in CallsOf(calls, "context_flush", h) : ~calls[i].ok

C32_EvictionSurvivesFlushFailure ==
    [][/\ Len(abandoned') <= MAX_ABANDONED
       /\ last'.kind = "CONNECTION_REMOVED"
          => \A e \in SeqToSet(abandoned) :
                FailedFlush(last'.calls, e.handle)
                => /\ Untracked(active', abandoned', e.handle)
                   /\ Cardinality(CallsOf(last'.calls, "context_flush", e.handle)) = 1
                   /\ \A x \in OwnedBy(Cmd1.conn, "SAVED_CLIENT") :
                         Closed(x) \in SeqToSet(abandoned')
                   /\ abandoned'[Len(abandoned')].conn = Cmd1.conn
                   /\ Len(abandoned') = MAX_ABANDONED
                   /\ ~aborted'
                   /\ last'.resp = NoResponse /\ ~last'.fwd
                   /\ sink' = sink]_vars

\* the FIFO was full, a session was abandoned, and the flush of the entry
\* pushed out failed: the entry is tracked no more and the FIFO is full
C32_Witness ==
    /\ last.kind = "CONNECTION_REMOVED"
    /\ last.nabd = MAX_ABANDONED
    /\ Len(abandoned) = MAX_ABANDONED
    /\ abandoned[MAX_ABANDONED].conn = last.cmd.conn
    /\ \E i \in DOMAIN last.calls :
          /\ last.calls[i].op = "context_flush"
          /\ ~last.calls[i].ok
          /\ last.calls[i].n \notin Tracked
    /\ ~aborted

(* C33: when a command with the FLUSHED attribute has been sent to the TPM, *)
(* every entry loaded for it is removed from the caller's HandleMap and no  *)
(* context_saveflush call is made; the entries of the HandleMap that were   *)
(* not loaded for the command, and the other HandleMaps, are unchanged.     *)
LoadedVhandles(calls) ==
    {calls[i].n : i \in {j \in DOMAIN calls : calls[j].op = "context_load" /\ calls[j].ok}}

C33_FlushedCommandRemovesEntries ==
    [][(last'.kind = "COMMAND" /\ Cmd1.flushed /\ last'.fwd /\ ~aborted')
       => /\ \A v \in LoadedVhandles(last'.calls) :
                /\ handle_map_vlookup(hmap[Cmd1.conn], v) # {}
                /\ handle_map_vlookup(hmap'[Cmd1.conn], v) = {}
          /\ \A i \in DOMAIN last'.calls : last'.calls[i].op # "context_saveflush"
          /\ hmap'[Cmd1.conn]
                = {e \in hmap[Cmd1.conn] : e.vhandle \notin LoadedVhandles(last'.calls)}
          /\ \A d \in Conns \ {Cmd1.conn} : hmap'[d] = hmap[d]]_vars

\* a command with the FLUSHED attribute had one of the caller's two objects
\* loaded: that entry is gone and the other one is still in the HandleMap
C33_Witness ==
    /\ last.kind = "COMMAND"
    /\ last.cmd.flushed
    /\ last.fwd
    /\ ~aborted
    /\ Cardinality(LoadedVhandles(last.calls)) = 1
    /\ Cardinality(hmap[last.cmd.conn]) = 1
    /\ \A e \in hmap[last.cmd.conn] : e.vhandle \notin LoadedVhandles(last.calls)

(* C34: for a command without the FLUSHED attribute one context_saveflush   *)
(* call is made for each transient loaded or created during the command,    *)
(* each for a different physical handle, and the entry created from the     *)
(* response is in the HandleMap once.                                       *)
OkLoads(calls) == {i \in DOMAIN calls : calls[i].op = "context_load" /\ calls[i].ok}
SaveFlushes(calls) == {i \in DOMAIN calls : calls[i].op = "context_saveflush"}
Created(c) == {e \in hmap'[c] : handle_map_vlookup(hmap[c], e.vhandle) = {}}

C34_SaveFlushOncePerTransient ==
    [][(last'.kind = "COMMAND" /\ ~Cmd1.flushed /\ last'.fwd /\ ~aborted')
       => /\ Cardinality(SaveFlushes(last'.calls))
                = Cardinality(OkLoads(last'.calls)) + Cardinality(Created(Cmd1.conn))
          /\ \A i, j \in SaveFlushes(last'.calls) :
                i # j => last'.calls[i].n # last'.calls[j].n
          /\ Cardinality(Created(Cmd1.conn)) <= 1
          /\ \A e \in Created(Cmd1.conn) :
                Cardinality(handle_map_vlookup(hmap'[Cmd1.conn], e.vhandle)) = 1]_vars

(* C35: a ContextLoad whose body cannot be parsed as a context structure is *)
(* answered by the RM with an error response; it is not sent to the TPM, no *)
(* AccessBroker call is made for it and no session entry and no HandleMap   *)
(* changes.                                                                 *)
C35_UnparsableContextRejected ==
    [][(IsCommand("ContextLoad") /\ Cmd1.ctx.t = "X")
       => /\ ~last'.fwd
          /\ last'.calls = <<>>
          /\ last'.resp.rc \notin {"SUCCESS", "NONE"}
          /\ active' = active
          /\ abandoned' = abandoned
          /\ hmap' = hmap]_vars

(* C36: a command of the connection c never removes, re-owns or changes the *)
(* state of a session entry owned by another connection that is still       *)
(* connected: every such entry is in the active collection, as it was, when *)
(* the command is over, also when the command is a FlushContext that names  *)
(* its handle.                                                              *)
C36_SessionIsolation ==
    [][last'.kind = "COMMAND"
       => \A e \in active :
             (e.conn # Cmd1.conn /\ e.conn \in connected) => e \in active']_vars

(* C37: the removal of the connection c leaves every entry of the active    *)
(* collection that another connection owns as it is and issues no           *)
(* context_flush for its handle; of the entries c does not own it discards  *)
(* only abandoned entries pushed out of the FIFO, oldest first, each        *)
(* flushed once; the HandleMaps of the other connections and the TPM's      *)
(* transient slots are untouched.                                           *)
C37_ReaperFrame ==
    [][last'.kind = "CONNECTION_REMOVED"
       => LET others == {e \in active : e.conn # Cmd1.conn}
              k      == Len(abandoned) - Cardinality({i \in DOMAIN abandoned :
                                                        abandoned[i] \in SeqToSet(abandoned')})
          IN /\ active' = others
             /\ \A e \in others : CallsOf(last'.calls, "context_flush", e.handle) = {}
             /\ \A i \in DOMAIN abandoned :
                   IF i <= k
                   THEN /\ Untracked(active', abandoned', abandoned[i].handle)
                        /\ Cardinality(CallsOf(last'.calls, "context_flush",
                                               abandoned[i].handle)) = 1
                        /\ Len(abandoned') = MAX_ABANDONED
                   ELSE /\ abandoned'[i - k] = abandoned[i]
                        /\ CallsOf(last'.calls, "context_flush", abandoned[i].handle) = {}
             /\ \A d \in Conns \ {Cmd1.conn} : hmap'[d] = hmap[d] /\ vcount'[d] = vcount[d]
             /\ tpm' = tpm]_vars

\* a connection was removed while another connection owned a session in each
\* of SAVED_RM and SAVED_CLIENT and the FIFO held an entry: one session was
\* abandoned, and the other connection's sessions and the older FIFO entry
\* are as they were
C37_Witness ==
    /\ last.kind = "CONNECTION_REMOVED"
    /\ last.nabd >= 1
    /\ Len(abandoned) = last.nabd + 1
    /\ abandoned[Len(abandoned)].conn = last.cmd.conn
    /\ abandoned[1].conn # last.cmd.conn
    /\ \E e1, e2 \in active : /\ e1.conn = e2.conn
                              /\ e1.state = "SAVED_RM"
                              /\ e2.state = "SAVED_CLIENT"

(* C38: the response to a GetCapability (handles, transient) that the RM    *)
(* answers itself is a function of the caller's HandleMap, prop and count:  *)
(* with any other HandleMaps in place of the other connections' the         *)
(* response is the same; and a command of the connection c changes no       *)
(* HandleMap but c's.                                                       *)
OtherMaps == SUBSET {HandleMapEntry(v, 0) : v \in Vhandles}

WithOthers(c, m) == [Work(Cmd1, {}) EXCEPT !.hmap = [d \in Conns |-> IF d = c THEN hmap[c] ELSE m]]

C38_TransientIsolation ==
    [][last'.kind = "COMMAND"
       => /\ \A d \in Conns \ {Cmd1.conn} : hmap'[d] = hmap[d] /\ vcount'[d] = vcount[d]
          /\ (Cmd1.code = "GetCapability" /\ Cmd1.cap = "HANDLES" /\ IsTransient(Cmd1.prop))
             => /\ ~last'.fwd
                /\ \A m \in OtherMaps :
                      get_cap_handles_response(WithOthers(Cmd1.conn, m), Cmd1).resp
                          = last'.resp
                /\ \A i \in DOMAIN last'.resp.list :
                      handle_map_vlookup(hmap[Cmd1.conn], last'.resp.list[i]) # {}]_vars

\* a connection was told of its own transient handle while another
\* connection held an object under a different vhandle
C38_Witness ==
    /\ last.kind = "COMMAND"
    /\ last.cmd.code = "GetCapability"
    /\ ~last.fwd
    /\ Len(last.resp.list) = 1
    /\ \E d \in Conns \ {last.cmd.conn} :
          \E e \in hmap[d] : handle_map_vlookup(hmap[last.cmd.conn], e.vhandle) = {}

(* C39: while one command is processed a session is context-loaded at most  *)
(* once.  When its handle is in the handle area and in the auth area the    *)
(* first occurrence loads it and the later one is refused, the state being  *)
(* LOADED already; a later occurrence with continueSession clear does not   *)
(* remove the entry, which is saved after the command like any loaded       *)
(* session.                                                                 *)
C39_LoadedAtMostOnce ==
    [][last'.kind = "COMMAND"
       => \A h \in Sessions :
             /\ Cardinality(SessionLoads(last'.calls, h)) <= 1
             /\ (InHandleArea(Cmd1, h) /\ (\E k \in BOOLEAN : InAuthArea(Cmd1, h, k))
                   /\ TrackedAs(active, h, Cmd1.conn, "SAVED_RM"))
                => /\ Cardinality(SessionLoads(last'.calls, h)) = 1
                   /\ LoadedFor(last'.calls, h)
                      => /\ Cardinality(SessionSaves(last'.calls, h)) = 1
                         /\ \/ TrackedAs(active', h, Cmd1.conn, "SAVED_RM")
                            \/ SaveFailed(last'.calls, h)]_vars

\* a command named its session in the handle area and, with continueSession
\* clear, in the auth area: the session was loaded once and is still tracked
C39_Witness ==
    /\ last.kind = "COMMAND"
    /\ last.was.state = "SAVED_RM"
    /\ last.cmd.handles = <<H("S", last.was.handle)>>
    /\ last.cmd.auths = <<[handle |-> H("S", last.was.handle), cont |-> FALSE]>>
    /\ Cardinality(SessionLoads(last.calls, last.was.handle)) = 1
    /\ LoadedFor(last.calls, last.was.handle)
    /\ last.fwd
    /\ TrackedAs(active, last.was.handle, last.cmd.conn, "SAVED_RM")

(* C40: with a fair dequeue, every TPM command that is in the queue with no *)
(* CHECK_CANCEL and no null item ahead of it, the worker running, is        *)
(* eventually answered on the sink; an unknown control code and a           *)
(* CONNECTION_REMOVED do not stop the worker; and a CHECK_CANCEL or a null  *)
(* item in the queue of the running worker leads to the worker's exit.      *)
MsgIds == 1 .. MaxMsgs
Queued(i, kinds) ==
    \E j \in DOMAIN in_queue : in_queue[j].id = i /\ in_queue[j].kind \in kinds
StopKinds == {"CHECK_CANCEL", "NULL"}
StopAhead(i) ==
    \E j \in DOMAIN in_queue : in_queue[j].id < i /\ in_queue[j].kind \in StopKinds
Answered(i) == \E j \in DOMAIN sink : sink[j].id = i /\ sink[j].kind = "RESPONSE"
Pending(i, kinds) == ~done /\ ~aborted /\ Queued(i, kinds) /\ ~StopAhead(i)

ControlGoesOn ==
    [][(/\ ~done /\ in_queue # <<>>
        /\ in_queue' = Tail(in_queue)
        /\ Head(in_queue).kind \in {"UNKNOWN", "CONNECTION_REMOVED"})
       => ~done' /\ ~aborted']_vars

C40_EngineLiveness ==
    /\ \A i \in MsgIds : Pending(i, {"COMMAND"}) ~> Answered(i)
    /\ \A i \in MsgIds : Pending(i, StopKinds) ~> done
    /\ ControlGoesOn

(* C40, amended: the command is answered unless the process aborts (the     *)
(* vhandle counter has rolled over) before its response is emitted, and the *)
(* worker exits on the CHECK_CANCEL or null item unless the process aborts  *)
(* before that.                                                             *)
C40_EngineLivenessUnlessAborted ==
    /\ \A i \in MsgIds : Pending(i, {"COMMAND"}) ~> (Answered(i) \/ aborted)
    /\ \A i \in MsgIds : Pending(i, StopKinds) ~> (done \/ aborted)
    /\ \A i \in MsgIds :
          Pending(i, {"UNKNOWN", "CONNECTION_REMOVED"}) ~> (~Queued(i, {"UNKNOWN", "CONNECTION_REMOVED"}) \/ aborted)
    /\ ControlGoesOn

\* the worker went past an unknown control code, answered the command behind
\* it and exited on the CHECK_CANCEL behind that
C40_Witness ==
    /\ done /\ ~aborted
    /\ in_queue = <<>>
    /\ nmsgs = 3
    /\ Len(sink) = 2
    /\ sink[1].kind = "RESPONSE" /\ sink[1].id = 2
    /\ sink[2].kind = "CHECK_CANCEL" /\ sink[2].id = 3

====
